---- MODULE Spec2Model ----
(***************************************************************************)
(* Trade execution and risk-control plane of openClawGoldTraderBot:        *)
(* the ledger of Trade rows, the RiskManager admission gate, the           *)
(* TradeExecutor.submit_trade pipeline, the close / cancel / modify API    *)
(* handlers and the TradeCloseMonitor background loop, together with the   *)
(* broker gateway they talk to.                                            *)
(*                                                                         *)
(* Every await of the Python code is a point where another coroutine may   *)
(* run, so a handler is a sequence of steps (one action each), cut at the  *)
(* awaits whose interleaving matters: broker calls, ledger reads and       *)
(* ledger commits.                                                         *)
(*                                                                         *)
(* Numbers: prices, sizes and profit/loss are integers; time is whole      *)
(* minutes since a Monday 00:00 UTC; percentages keep their configured     *)
(* value scaled to integers where the configuration uses fractions.        *)
(***************************************************************************)
EXTENDS Integers, Sequences, FiniteSets, Bags, TLC

VARIABLES
    settings,     \* the Settings object built at startup
    rows,         \* the ledger: table trades, row id = index
    now,          \* wall clock, minutes
    pos,          \* broker: open position per (instrument, direction)
    orders,       \* broker: entry orders not yet filled (resting or working)
    nextOrderId,  \* broker: order id counter
    sub,          \* submit_trade coroutines
    cp,           \* close_position handler
    cn,           \* cancel_order handler
    md,           \* modify_position handler
    mon,          \* TradeCloseMonitor
    notified,     \* Telegram messages sent (bag)
    rm,           \* last RiskManager query and its answer
    lastcall,     \* last call of a service function, with its results
    atrc,         \* ATRCalculator: its _cache and the monotonic clock it reads
    used          \* how often the bounded operations have run

vars == <<settings, rows, now, pos, orders, nextOrderId, sub, cp, cn, md, mon, notified, rm,
          lastcall, atrc, used>>

-----------------------------------------------------------------------------
(* Values *)

\* Python None / SQL NULL in a numeric column
Null == 0 - 999999
\* None in a string column
NoStr == "None"

Max(a, b) == IF a >= b THEN a ELSE b
Min(a, b) == IF a <= b THEN a ELSE b
Abs(a) == IF a < 0 THEN 0 - a ELSE a

PENDING == "pending"
VALIDATED == "validated"
REJECTED == "rejected"
EXECUTED == "executed"
FAILED == "failed"
CLOSED == "closed"
PENDING_ORDER == "pending_order"
CANCELLED == "cancelled"

TradeStatus == {PENDING, VALIDATED, REJECTED, EXECUTED, FAILED, CLOSED, PENDING_ORDER, CANCELLED}

Directions == {"BUY", "SELL"}

M5_SCALP == "m5_scalp"

-----------------------------------------------------------------------------
(* Bounds of the model *)

\* submit_trade coroutines that may run at once
NumSubmitters == 2
\* API calls (submit, close, cancel, modify) in one behaviour
MaxCalls == 2
\* clock ticks in one behaviour
MaxTicks == 1
\* monitor polls told apart: the first, the second, ...; later ones count as the last
MaxPolls == 2
\* rows of a ledger history drawn for the risk manager
MaxHist == 5
\* rows of an unbroken losing streak drawn for the risk manager
MaxStreak == 21
\* rows of a ledger drawn for the cooldown timeline
MaxTimeline == 3
\* minutes the cooldown timeline runs
MaxMinutes == 270

-----------------------------------------------------------------------------
(* Settings (app/config.py) *)

DefaultSettings ==
    [ cooldown_enabled            |-> TRUE,
      cooldown_after_losses       |-> 2,
      cooldown_hours_base         |-> 2,
      scalp_cooldown_enabled      |-> TRUE,
      scalp_cooldown_after_losses |-> 2,
      scalp_cooldown_minutes_base |-> 10,
      daily_loss_limit_enabled    |-> TRUE,
      max_daily_loss_percent      |-> 3,
      max_daily_trades            |-> 5,
      weekly_loss_limit_enabled   |-> TRUE,
      max_weekly_loss_percent     |-> 6,
      session_filter_enabled      |-> TRUE,
      partial_tp_enabled          |-> TRUE,
      partial_tp_percent          |-> 50,
      partial_tp_r_multiple       |-> 1,
      \* max_spread_to_sl_ratio = 0.30, in percent
      max_spread_to_sl_ratio_pct  |-> 30,
      atr_enabled                 |-> TRUE,
      \* atr_sl_multiplier = 1.5 and atr_tp_multiplier = 2.0, in tenths
      atr_sl_multiplier_x10       |-> 15,
      atr_tp_multiplier_x10       |-> 20,
      atr_cache_ttl_seconds       |-> 3600,
      conviction_sizing_enabled   |-> TRUE,
      \* risk percentages in hundredths of a percent: 3.0, 3.0, 2.25, 1.5
      max_risk_bp                 |-> 300,
      conviction_high_risk_bp     |-> 300,
      conviction_medium_risk_bp   |-> 225,
      conviction_low_risk_bp      |-> 150 ]

-----------------------------------------------------------------------------
(* Time *)

MinutesPerHour == 60
MinutesPerDay == 24 * 60
MinutesPerWeek == 7 * 24 * 60

\* datetime.now(utc).replace(hour=0, minute=0, second=0, microsecond=0)
TodayStart(t) == (t \div MinutesPerDay) * MinutesPerDay
\* (now - timedelta(days=now.weekday())).replace(hour=0, ...)
WeekStart(t) == (t \div MinutesPerWeek) * MinutesPerWeek
\* now.hour
HourOf(t) == (t % MinutesPerDay) \div MinutesPerHour

-----------------------------------------------------------------------------
(* RiskManager (app/services/risk_manager.py) *)

\* rows a query "status == CLOSED and pnl is not None [and strategy == strat]" returns
ClosedIds(ledger, strat) ==
    { i \in DOMAIN ledger :
        /\ ledger[i].status = CLOSED
        /\ ledger[i].pnl # Null
        /\ (strat = NoStr \/ ledger[i].strategy = strat) }

\* ORDER BY closed_at DESC; SQL leaves the order of equal keys open,
\* the later row id is taken first
ClosedBefore(ledger, i, j) ==
    \/ ledger[i].closed_at > ledger[j].closed_at
    \/ (ledger[i].closed_at = ledger[j].closed_at /\ i >= j)

RECURSIVE OrderByClosedDesc(_, _)
OrderByClosedDesc(ledger, ids) ==
    IF ids = {} THEN <<>>
    ELSE LET m == CHOOSE i \in ids : \A j \in ids : ClosedBefore(ledger, i, j)
         IN  <<m>> \o OrderByClosedDesc(ledger, ids \ {m})

\* the rows a loss-counting query loads at most
LossWindow == 20

\* a mutation of Limit: the limit clause dropped from the query
Limit_dropped(seq, n) == seq

\* .limit(20)
Limit(seq, n) == IF Len(seq) <= n THEN seq ELSE SubSeq(seq, 1, n)

\* the for-loop of _count_consecutive_losses: count while pnl < 0, break otherwise
RECURSIVE LossPrefix(_, _, _)
LossPrefix(ledger, seq, k) ==
    IF k > Len(seq) THEN 0
    ELSE IF ledger[seq[k]].pnl # Null /\ ledger[seq[k]].pnl < 0
         THEN 1 + LossPrefix(ledger, seq, k + 1)
         ELSE 0

\* _count_consecutive_losses (strat = NoStr) and _count_consecutive_scalp_losses
CountConsecutiveLosses(ledger, strat) ==
    LossPrefix(ledger, Limit(OrderByClosedDesc(ledger, ClosedIds(ledger, strat)), LossWindow), 1)

\* a mutation of LastLossTime: the earliest losing row instead of the latest
LastLossTime_first(ledger, strat) ==
    LET losing == { i \in DOMAIN ledger :
                      /\ ledger[i].status = CLOSED
                      /\ ledger[i].pnl # Null /\ ledger[i].pnl < 0
                      /\ (strat = NoStr \/ ledger[i].strategy = strat) }
    IN  IF losing = {} THEN Null
        ELSE LET m == CHOOSE i \in losing :
                        \A j \in losing : ledger[i].closed_at <= ledger[j].closed_at
             IN  ledger[m].closed_at

\* _last_loss_time and _last_scalp_loss_time: closed_at of the latest losing row
LastLossTime(ledger, strat) ==
    LET losing == { i \in DOMAIN ledger :
                      /\ ledger[i].status = CLOSED
                      /\ ledger[i].pnl # Null /\ ledger[i].pnl < 0
                      /\ (strat = NoStr \/ ledger[i].strategy = strat) }
    IN  IF losing = {} THEN Null
        ELSE LET m == CHOOSE i \in losing :
                        \A j \in losing : ledger[i].closed_at >= ledger[j].closed_at
             IN  ledger[m].closed_at

Pass(kind) == [ok |-> TRUE, kind |-> kind, value |-> 0, limit |-> 0]
Deny(kind, value, limit) == [ok |-> FALSE, kind |-> kind, value |-> value, limit |-> limit]

\* a mutation of CooldownDuration: one more base per further loss, no doubling
CooldownDuration_linear(base, losses, threshold) == base * (1 + (losses - threshold))

\* the exponential backoff shared by check_cooldown and _check_scalp_cooldown:
\* threshold losses -> base, each further loss doubles it
CooldownDuration(base, losses, threshold) == base * (2 ^ (losses - threshold))

\* a mutation of check_cooldown: still denying at the instant the cooldown ends
check_cooldown_inclusive(s, ledger, t) ==
    IF ~s.cooldown_enabled THEN Pass("Cooldown disabled")
    ELSE LET n == CountConsecutiveLosses(ledger, NoStr) IN
         IF n < s.cooldown_after_losses THEN Pass("No cooldown")
         ELSE LET hours == CooldownDuration(s.cooldown_hours_base, n, s.cooldown_after_losses)
                  last  == LastLossTime(ledger, NoStr)
              IN  IF last = Null THEN Pass("No cooldown (no recent losses)")
                  ELSE IF t <= last + hours * MinutesPerHour
                       THEN Deny("Cooldown active", (last + hours * MinutesPerHour) - t, hours)
                       ELSE Pass("Cooldown expired")

\* check_cooldown; value = minutes still to wait, limit = cooldown hours
check_cooldown(s, ledger, t) ==
    IF ~s.cooldown_enabled THEN Pass("Cooldown disabled")
    ELSE LET n == CountConsecutiveLosses(ledger, NoStr) IN
         IF n < s.cooldown_after_losses THEN Pass("No cooldown")
         ELSE LET hours == CooldownDuration(s.cooldown_hours_base, n, s.cooldown_after_losses)
                  last  == LastLossTime(ledger, NoStr)
              IN  IF last = Null THEN Pass("No cooldown (no recent losses)")
                  ELSE IF t < last + hours * MinutesPerHour
                       THEN Deny("Cooldown active", (last + hours * MinutesPerHour) - t, hours)
                       ELSE Pass("Cooldown expired")

\* _check_scalp_cooldown; value = minutes still to wait, limit = cooldown minutes
check_scalp_cooldown(s, ledger, t) ==
    IF ~s.scalp_cooldown_enabled THEN Pass("Scalp cooldown disabled")
    ELSE LET n == CountConsecutiveLosses(ledger, M5_SCALP) IN
         IF n < s.scalp_cooldown_after_losses THEN Pass("No scalp cooldown")
         ELSE LET mins == CooldownDuration(s.scalp_cooldown_minutes_base, n,
                                           s.scalp_cooldown_after_losses)
                  last == LastLossTime(ledger, M5_SCALP)
              IN  IF last = Null THEN Pass("No scalp cooldown (no recent scalp losses)")
                  ELSE IF t < last + mins
                       THEN Deny("Scalp cooldown active", (last + mins) - t, mins)
                       ELSE Pass("Scalp cooldown expired")

get_daily_trade_count_any_status(ledger, t) ==
    Cardinality({ i \in DOMAIN ledger : ledger[i].created_at >= TodayStart(t) })

\* _get_daily_trade_count
get_daily_trade_count(ledger, t) ==
    Cardinality({ i \in DOMAIN ledger :
                    /\ ledger[i].status \in {EXECUTED, CLOSED}
                    /\ ledger[i].created_at >= TodayStart(t) })

RECURSIVE SumPnl(_, _)
SumPnl(ledger, ids) ==
    IF ids = {} THEN 0
    ELSE LET i == CHOOSE x \in ids : TRUE
         IN  ledger[i].pnl + SumPnl(ledger, ids \ {i})

\* the sum of _get_daily_pnl and _get_weekly_pnl: closed rows closed since `since`
PnlSince(ledger, since) ==
    SumPnl(ledger, { i \in DOMAIN ledger :
                       /\ ledger[i].status = CLOSED
                       /\ ledger[i].pnl # Null
                       /\ ledger[i].closed_at # Null
                       /\ ledger[i].closed_at >= since })

get_daily_pnl(ledger, t) == PnlSince(ledger, TodayStart(t))
get_weekly_pnl(ledger, t) == PnlSince(ledger, WeekStart(t))

\* _get_unrealized_pnl: dependencies.py builds RiskManager(settings) with no
\* broker client, so the early return of 0.0 is the only path
get_unrealized_pnl == 0

\* _check_daily_trade_count
check_daily_trade_count(s, ledger, t) ==
    IF ~s.daily_loss_limit_enabled THEN Pass("Daily limits disabled")
    ELSE IF get_daily_trade_count(ledger, t) >= s.max_daily_trades
         THEN Deny("Daily trade limit reached", get_daily_trade_count(ledger, t), s.max_daily_trades)
         ELSE Pass("Daily trades")

\* _check_daily_loss_limit: total <= -(balance * pct / 100), compared times 100
check_daily_loss_limit(s, ledger, t, balance) ==
    IF ~s.daily_loss_limit_enabled THEN Pass("Daily limits disabled")
    ELSE LET total == get_daily_pnl(ledger, t) + get_unrealized_pnl IN
         IF total * 100 <= 0 - (balance * s.max_daily_loss_percent)
         THEN Deny("Daily loss limit reached", total, balance * s.max_daily_loss_percent)
         ELSE Pass("Daily P&L")

\* _check_weekly_loss_limit
check_weekly_loss_limit(s, ledger, t, balance) ==
    IF ~s.weekly_loss_limit_enabled THEN Pass("Weekly limits disabled")
    ELSE LET total == get_weekly_pnl(ledger, t) + get_unrealized_pnl IN
         IF total * 100 <= 0 - (balance * s.max_weekly_loss_percent)
         THEN Deny("Weekly loss limit reached", total, balance * s.max_weekly_loss_percent)
         ELSE Pass("Weekly P&L")

\* get_cooldown_status, lines 98-143: the status the risk endpoint reports;
\* daily_loss_limit is compared times 100, remaining is in minutes
get_cooldown_status(s, ledger, t, balance) ==
    LET consecutive_losses == CountConsecutiveLosses(ledger, NoStr)
        daily_count        == get_daily_trade_count(ledger, t)
        daily_pnl          == get_daily_pnl(ledger, t)
        last_loss_time     == LastLossTime(ledger, NoStr)
        cooldown_end       ==
            last_loss_time + MinutesPerHour *
               CooldownDuration(s.cooldown_hours_base, consecutive_losses, s.cooldown_after_losses)
        cooldown_active    ==
            /\ s.cooldown_enabled
            /\ consecutive_losses >= s.cooldown_after_losses
            /\ last_loss_time # Null
            /\ t < cooldown_end
    IN  [ can_trade |->
             /\ ~cooldown_active
             /\ s.daily_loss_limit_enabled =>
                   /\ ~(daily_count >= s.max_daily_trades)
                   /\ ~(daily_pnl * 100 <= 0 - (balance * s.max_daily_loss_percent)),
          cooldown_active |-> cooldown_active,
          cooldown_remaining_minutes |-> IF cooldown_active THEN cooldown_end - t ELSE Null,
          consecutive_losses |-> consecutive_losses,
          daily_trades_count |-> daily_count,
          daily_trades_limit |-> s.max_daily_trades,
          daily_pnl |-> daily_pnl ]

\* the names of the five sub-checks, as can_trade calls them
CHK_SCALP == "_check_scalp_cooldown"
CHK_COOLDOWN == "check_cooldown"
CHK_COUNT == "_check_daily_trade_count"
CHK_DAILY == "_check_daily_loss_limit"
CHK_WEEKLY == "_check_weekly_loss_limit"

\* the result of one sub-check by name
RunCheck(name, s, ledger, t, balance) ==
    CASE name = CHK_SCALP    -> check_scalp_cooldown(s, ledger, t)
      [] name = CHK_COOLDOWN -> check_cooldown(s, ledger, t)
      [] name = CHK_COUNT    -> check_daily_trade_count(s, ledger, t)
      [] name = CHK_DAILY    -> check_daily_loss_limit(s, ledger, t, balance)
      [] name = CHK_WEEKLY   -> check_weekly_loss_limit(s, ledger, t, balance)

\* a mutation of can_trade_calls: the daily trade count moved before the cooldowns
can_trade_calls_reordered(strategy) ==
    (IF strategy = M5_SCALP THEN <<CHK_COUNT, CHK_SCALP>> ELSE <<CHK_COUNT>>)
        \o <<CHK_COOLDOWN, CHK_DAILY, CHK_WEEKLY>>

\* the calls can_trade makes, in program order; the scoped cooldown only
\* under `if strategy == "m5_scalp"`
can_trade_calls(strategy) ==
    (IF strategy = M5_SCALP THEN <<CHK_SCALP>> ELSE <<>>)
        \o <<CHK_COOLDOWN, CHK_COUNT, CHK_DAILY, CHK_WEEKLY>>

\* can_trade from its k-th call on: each `if not ok: return False, reason`
\* returns at once; `evaluated` lists the sub-checks that were called
RECURSIVE can_trade_from(_, _, _, _, _, _, _)
can_trade_from(calls, k, done, s, ledger, t, balance) ==
    IF k > Len(calls)
    THEN [ok |-> TRUE, reason |-> Pass("Risk checks passed"), evaluated |-> done]
    ELSE LET r == RunCheck(calls[k], s, ledger, t, balance) IN
         IF ~r.ok
         THEN [ok |-> FALSE, reason |-> r, evaluated |-> Append(done, calls[k])]
         ELSE can_trade_from(calls, k + 1, Append(done, calls[k]), s, ledger, t, balance)

\* RiskManager.can_trade(db_session, account_balance, strategy=None)
can_trade(s, ledger, t, balance, strategy) ==
    can_trade_from(can_trade_calls(strategy), 1, <<>>, s, ledger, t, balance)

-----------------------------------------------------------------------------
(* Instruments (app/instruments.py) *)

XAUUSD ==
    [ key                 |-> "XAUUSD",
      sec_type            |-> "CMDTY",
      multiplier          |-> 1,
      min_size            |-> 1,
      max_size            |-> 10,
      default_sl_distance |-> 50,
      default_tp_distance |-> 100,
      min_stop_distance   |-> 5,
      max_stop_distance   |-> 300,
      trading_sessions    |-> << <<7, 16>>, <<13, 21>> >> ]

\* two more of the catalogue, for the functions that take an instrument: a
\* future with a multiplier and a currency pair sized in thousands (its stop
\* distances in the model are in pips)
MES ==
    [ key                 |-> "MES",
      sec_type            |-> "FUT",
      multiplier          |-> 5,
      min_size            |-> 1,
      max_size            |-> 20,
      default_sl_distance |-> 20,
      default_tp_distance |-> 40,
      min_stop_distance   |-> 2,
      max_stop_distance   |-> 100,
      trading_sessions    |-> << <<13, 20>> >> ]

EURUSD ==
    [ key                 |-> "EURUSD",
      sec_type            |-> "CASH",
      multiplier          |-> 1,
      min_size            |-> 20000,
      max_size            |-> 500000,
      default_sl_distance |-> 50,
      default_tp_distance |-> 100,
      min_stop_distance   |-> 5,
      max_stop_distance   |-> 500,
      trading_sessions    |-> << <<7, 21>> >> ]

INSTRUMENTS == {XAUUSD, MES, EURUSD}

\* get_instrument(None) is XAUUSD; requests of the model name no other instrument
get_instrument(key) == XAUUSD

\* SessionFilter._hour_in_range
hour_in_range(hour, start, end) ==
    IF start <= end THEN start <= hour /\ hour < end
    ELSE hour >= start \/ hour < end

\* SessionFilter.is_session_active
is_session_active(s, instrument, t) ==
    \/ ~s.session_filter_enabled
    \/ Len(instrument.trading_sessions) = 0
    \/ \E k \in DOMAIN instrument.trading_sessions :
          hour_in_range(HourOf(t), instrument.trading_sessions[k][1],
                        instrument.trading_sessions[k][2])

-----------------------------------------------------------------------------
(* Arithmetic of the Python code *)

\* a float NaN, as a request may carry it in limit_distance
NaN == 0 - 888888

\* Python round(n / d) for n >= 0, d > 0: to nearest, ties to even
RoundHalfEven(n, d) ==
    LET q == n \div d
        r == n % d
    IN  IF 2 * r < d THEN q
        ELSE IF 2 * r > d THEN q + 1
        ELSE IF q % 2 = 0 THEN q ELSE q + 1

\* Python `x or default` on an optional number: None and 0 are falsy
OrElse(x, default) == IF x = Null \/ x = 0 THEN default ELSE x

-----------------------------------------------------------------------------
(* ATRCalculator (app/services/atr_calculator.py) *)

get_dynamic_sl_tp_unfloored(s, atr, instrument) ==
    IF ~s.atr_enabled \/ atr = Null THEN <<>>
    ELSE << Max(10 * instrument.min_stop_distance,
                Min(atr * s.atr_sl_multiplier_x10, 10 * instrument.max_stop_distance)),
            atr * s.atr_tp_multiplier_x10 >>

\* get_dynamic_sl_tp on the average true range _get_atr returned (Null for
\* None): <<>> for None, else the two distances in tenths of a price unit
get_dynamic_sl_tp(s, atr, instrument) ==
    IF ~s.atr_enabled \/ atr = Null THEN <<>>
    ELSE LET sl == Max(10 * instrument.min_stop_distance,
                       Min(atr * s.atr_sl_multiplier_x10,
                           10 * instrument.max_stop_distance))
             tp == Max(sl, atr * s.atr_tp_multiplier_x10)
         IN  <<sl, tp>>

get_atr_inclusive(s, c, instrument, fetched) ==
    LET cached == c.cache[instrument.key]
    IN  IF cached # <<>> /\ c.mono - cached[2] <= s.atr_cache_ttl_seconds
        THEN [atr |-> cached[1], cache |-> c.cache, fetched |-> FALSE]
        ELSE [ atr     |-> fetched,
               cache   |-> IF fetched # Null
                           THEN [c.cache EXCEPT ![instrument.key] = <<fetched, c.mono>>]
                           ELSE c.cache,
               fetched |-> TRUE ]

\* _get_atr reading the monotonic clock at c.mono: the value returned, the
\* cache afterwards and whether _fetch_atr ran; fetched is what _fetch_atr
\* returns if it runs (Null for None)
get_atr(s, c, instrument, fetched) ==
    LET cached == c.cache[instrument.key]
    IN  IF cached # <<>> /\ c.mono - cached[2] < s.atr_cache_ttl_seconds
        THEN [atr |-> cached[1], cache |-> c.cache, fetched |-> FALSE]
        ELSE [ atr     |-> fetched,
               cache   |-> IF fetched # Null
                           THEN [c.cache EXCEPT ![instrument.key] = <<fetched, c.mono>>]
                           ELSE c.cache,
               fetched |-> TRUE ]

\* the calculator after construction: an empty _cache; history_calls counts
\* the downloads, last_fetch remembers per instrument the result and the clock
\* reading of the last call whose download succeeded
NoCalculator ==
    [ cache         |-> [k \in {i.key : i \in INSTRUMENTS} |-> <<>>],
      mono          |-> 0,
      history_calls |-> 0,
      last_fetch    |-> [k \in {i.key : i \in INSTRUMENTS} |-> <<>>] ]

\* no service function called yet
NoCall == [fn |-> NoStr, args |-> <<>>, result |-> <<>>]

-----------------------------------------------------------------------------
(* PositionSizer (app/services/position_sizer.py) *)

\* _get_risk_percent, in hundredths of a percent
get_risk_percent(s, conviction) ==
    IF ~s.conviction_sizing_enabled \/ conviction = NoStr THEN s.max_risk_bp
    ELSE CASE conviction = "HIGH"   -> s.conviction_high_risk_bp
           [] conviction = "MEDIUM" -> s.conviction_medium_risk_bp
           [] conviction = "LOW"    -> s.conviction_low_risk_bp
           [] OTHER                 -> s.max_risk_bp

RECURSIVE GCD(_, _)
GCD(a, b) == IF b = 0 THEN a ELSE GCD(b, a % b)

calculate_uncapped(s, balance, stop_distance, instrument, conviction) ==
    IF stop_distance <= 0 THEN instrument.min_size
    ELSE LET g   == GCD(balance, 10000)
             num == (balance \div g) * get_risk_percent(s, conviction)
             den == (10000 \div g) * stop_distance * instrument.multiplier
         IN  IF instrument.sec_type = "CASH"
             THEN Max(RoundHalfEven(num, den * 1000) * 1000, instrument.min_size)
             ELSE Max(RoundHalfEven(num, den), instrument.min_size)

\* PositionSizer.calculate: raw = balance * pct / 100 / (stop * multiplier),
\* kept as the fraction num / den (reduced by the factor balance shares with
\* 10000) until it is rounded; max_size is a whole number, so raw >= max_size
\* exactly when the whole part of raw is
calculate(s, balance, stop_distance, instrument, conviction) ==
    IF stop_distance <= 0 THEN instrument.min_size
    ELSE LET g   == GCD(balance, 10000)
             num == (balance \div g) * get_risk_percent(s, conviction)
             den == (10000 \div g) * stop_distance * instrument.multiplier
             capped == num \div den >= instrument.max_size
         IN  IF instrument.sec_type = "CASH"
             THEN Max((IF capped THEN RoundHalfEven(instrument.max_size, 1000)
                                 ELSE RoundHalfEven(num, den * 1000)) * 1000,
                      instrument.min_size)
             ELSE Max(IF capped THEN instrument.max_size ELSE RoundHalfEven(num, den),
                      instrument.min_size)

-----------------------------------------------------------------------------
(* TradeValidator (app/services/trade_validator.py) *)

\* the errors list of validate, after the session check
validate_errors(request, instrument) ==
    LET sd == request.stop_distance IN
    (IF request.direction \notin Directions THEN {"Invalid direction"} ELSE {})
    \cup (IF sd = Null /\ request.stop_level = Null THEN {"Stop loss is required"} ELSE {})
    \cup (IF sd # Null /\ sd < instrument.min_stop_distance
          THEN {"Stop distance below min"} ELSE {})
    \cup (IF sd # Null /\ sd > instrument.max_stop_distance
          THEN {"Stop distance above max"} ELSE {})
    \cup (IF sd # Null /\ sd # 0 /\ request.limit_distance # Null
             /\ request.limit_distance # 0 /\ request.limit_distance # NaN
             /\ request.limit_distance < sd
          THEN {"R:R ratio below minimum 1:1"} ELSE {})
    \cup (IF request.size # Null /\ request.size > instrument.max_size
          THEN {"Size exceeds max"} ELSE {})
    \cup (IF request.size # Null /\ request.size < instrument.min_size
          THEN {"Size below IBKR min"} ELSE {})

\* TradeValidator.validate -> (valid, message); the message is the set of its parts
validate(s, request, instrument, t) ==
    IF ~is_session_active(s, instrument, t)
    THEN [valid |-> FALSE, message |-> {"outside active sessions"}]
    ELSE IF validate_errors(request, instrument) # {}
         THEN [valid |-> FALSE, message |-> validate_errors(request, instrument)]
         ELSE [valid |-> TRUE, message |-> {"Validation passed"}]

-----------------------------------------------------------------------------
(* TradeExecutor (app/services/trade_executor.py): the computations of       *)
(* submit_trade between its awaits                                           *)

\* TradeSubmitRequest; instrument is left None (XAUUSD)
Req(direction, order_type, entry_price, sd, ld, stop_level, limit_level, size, conviction, strategy) ==
    [ direction |-> direction, order_type |-> order_type, entry_price |-> entry_price,
      stop_distance |-> sd, limit_distance |-> ld,
      stop_level |-> stop_level, limit_level |-> limit_level,
      size |-> size, conviction |-> conviction, strategy |-> strategy ]

NoReq == Req("BUY", "MARKET", Null, Null, Null, Null, Null, Null, NoStr, NoStr)

is_pending(request) == request.order_type \in {"LIMIT", "STOP"}

\* lines 72-78: the price the order is measured against, and the spread
current_price_of(request, book) ==
    LET side == IF request.direction = "SELL" THEN book.bid ELSE book.ask
    IN  IF side <= 0 THEN book.last ELSE side

spread_of(book) == IF book.bid > 0 /\ book.ask > 0 THEN book.ask - book.bid ELSE Null

spread_too_wide_doubled(s, request, spread) ==
    /\ spread # Null /\ spread > 0
    /\ request.stop_distance # Null /\ request.stop_distance > 0
    /\ spread * 100 > 2 * s.max_spread_to_sl_ratio_pct * request.stop_distance

\* lines 83-85: spread / stop_distance > max_spread_to_sl_ratio
spread_too_wide(s, request, spread) ==
    /\ spread # Null /\ spread > 0
    /\ request.stop_distance # Null /\ request.stop_distance > 0
    /\ spread * 100 > s.max_spread_to_sl_ratio_pct * request.stop_distance

\* lines 93-116: a resting order on the wrong side of the market
entry_on_wrong_side(request, current_price) ==
    /\ is_pending(request)
    /\ \/ request.order_type = "LIMIT" /\ request.direction = "BUY"
          /\ request.entry_price >= current_price
       \/ request.order_type = "LIMIT" /\ request.direction = "SELL"
          /\ request.entry_price <= current_price
       \/ request.order_type = "STOP" /\ request.direction = "BUY"
          /\ request.entry_price <= current_price
       \/ request.order_type = "STOP" /\ request.direction = "SELL"
          /\ request.entry_price >= current_price

\* lines 123-136: request.model_copy(update=...) with ATR or default distances;
\* atr is <<sl, tp>>, or <<>> when get_dynamic_sl_tp returned None
prefill(request, atr, instrument) ==
    LET need_sd == request.stop_distance = Null /\ request.stop_level = Null
        need_ld == request.limit_distance = Null /\ request.limit_level = Null
        atr_sl  == IF atr = <<>> THEN Null ELSE atr[1]
        atr_tp  == IF atr = <<>> THEN Null ELSE atr[2]
    IN  [request EXCEPT
            !.stop_distance  = IF need_sd THEN OrElse(atr_sl, instrument.default_sl_distance)
                               ELSE @,
            !.limit_distance = IF need_ld THEN OrElse(atr_tp, instrument.default_tp_distance)
                               ELSE @]

\* lines 181-193: the stop level on the wrong side of the reference price
stop_level_wrong_side(request, reference_price) ==
    /\ request.stop_distance = Null /\ request.stop_level # Null
    /\ \/ request.direction = "BUY" /\ request.stop_level >= reference_price
       \/ request.direction = "SELL" /\ request.stop_level <= reference_price

\* lines 196-208
limit_level_wrong_side(request, reference_price) ==
    /\ request.limit_distance = Null /\ request.limit_level # Null
    /\ \/ request.direction = "BUY" /\ request.limit_level <= reference_price
       \/ request.direction = "SELL" /\ request.limit_level >= reference_price

\* lines 178-223: explicit distance, else the level's distance, else ATR, else default
resolve_stop_distance(request, reference_price, atr, instrument) ==
    LET d1 == IF request.stop_distance = Null /\ request.stop_level # Null
              THEN Abs(reference_price - request.stop_level)
              ELSE request.stop_distance
        d2 == IF d1 = Null /\ atr # <<>> THEN atr[1] ELSE d1
    IN  OrElse(d2, instrument.default_sl_distance)

resolve_limit_distance(request, reference_price, atr, instrument) ==
    LET d1 == IF request.limit_distance = Null /\ request.limit_level # Null
              THEN Abs(request.limit_level - reference_price)
              ELSE request.limit_distance
        d2 == IF d1 = Null /\ atr # <<>> THEN atr[2] ELSE d1
    IN  OrElse(d2, instrument.default_tp_distance)

\* lines 235-240, with NaN carried through the addition
tp_price_of(request, reference_price, limit_distance) ==
    IF limit_distance = NaN THEN NaN
    ELSE IF request.direction = "BUY" THEN reference_price + limit_distance
         ELSE reference_price - limit_distance

stop_price_of(request, reference_price, stop_distance) ==
    IF request.direction = "BUY" THEN reference_price - stop_distance
    ELSE reference_price + stop_distance

\* _can_split
can_split(s, size, instrument) ==
    LET half      == RoundHalfEven(size * s.partial_tp_percent, 100)
        remainder == RoundHalfEven(size * 100 - size * s.partial_tp_percent, 100)
    IN  IF instrument.sec_type = "CASH"
        THEN /\ Max(RoundHalfEven(size * s.partial_tp_percent, 100 * 1000) * 1000, 0)
                    >= instrument.min_size
             /\ Max(RoundHalfEven(size * 100 - size * s.partial_tp_percent, 100 * 1000) * 1000, 0)
                    >= instrument.min_size
        ELSE half >= instrument.min_size /\ remainder >= instrument.min_size

\* the leg sizes of _execute_partial_tp, _execute_runner, _execute_pending_partial_tp
split_sizes(s, size, instrument) ==
    IF instrument.sec_type = "CASH"
    THEN << Max(RoundHalfEven(size * s.partial_tp_percent, 100 * 1000) * 1000,
                instrument.min_size),
            Max(RoundHalfEven(size * 100 - size * s.partial_tp_percent, 100 * 1000) * 1000,
                instrument.min_size) >>
    ELSE << Max(RoundHalfEven(size * s.partial_tp_percent, 100), instrument.min_size),
            Max(RoundHalfEven(size * 100 - size * s.partial_tp_percent, 100),
                instrument.min_size) >>

broker_call_no_runner(s, request, size, instrument) ==
    IF is_pending(request)
    THEN IF s.partial_tp_enabled /\ can_split(s, size, instrument)
         THEN "open_pending_position_with_partial_tp"
         ELSE "open_pending_position"
    ELSE IF s.partial_tp_enabled /\ can_split(s, size, instrument)
         THEN "open_position_with_partial_tp"
         ELSE "open_position"

\* lines 251-292: which gateway method the execute step calls
broker_call(s, request, size, instrument) ==
    IF is_pending(request)
    THEN IF s.partial_tp_enabled /\ can_split(s, size, instrument)
         THEN "open_pending_position_with_partial_tp"
         ELSE "open_pending_position"
    ELSE IF s.partial_tp_enabled /\ can_split(s, size, instrument)
         THEN IF request.strategy = M5_SCALP THEN "open_position_with_runner"
              ELSE "open_position_with_partial_tp"
         ELSE "open_position"

\* what lines 71-247 leave for the execute step
NoPlan ==
    [ request |-> NoReq, current_price |-> Null, spread |-> Null, reference_price |-> Null,
      stop_distance |-> Null, limit_distance |-> Null, size |-> Null,
      stop_price |-> Null, tp_price |-> Null ]

\* _reject: a response and nothing else; trade_id = 0 names no row
reject(reason) ==
    [ trade_id |-> 0, deal_id |-> Null, status |-> REJECTED, size |-> 0,
      stop_distance |-> Null, limit_distance |-> Null, entry_price |-> Null,
      message |-> reason ]

NoResponse ==
    [ trade_id |-> 0, deal_id |-> Null, status |-> NoStr, size |-> 0,
      stop_distance |-> Null, limit_distance |-> Null, entry_price |-> Null,
      message |-> {} ]

\* lines 71-247 on a fetched book: "reject" (the _reject returns), "invalid"
\* (the validator's REJECTED row) or "go" with the plan of the order
prepare(s, request0, book, atr, balance, t) ==
    LET instrument == get_instrument(NoStr)
        current    == current_price_of(request0, book)
        spread     == spread_of(book)
        reference  == IF is_pending(request0) THEN request0.entry_price ELSE current
        request    == prefill(request0, atr, instrument)
        checked    == validate(s, request, instrument, t)
        sd         == resolve_stop_distance(request, reference, atr, instrument)
        ld         == resolve_limit_distance(request, reference, atr, instrument)
        size       == IF request.size = Null
                      THEN calculate(s, balance, sd, instrument, request.conviction)
                      ELSE request.size
        plan       == [ request |-> request, current_price |-> current, spread |-> spread,
                        reference_price |-> reference, stop_distance |-> sd,
                        limit_distance |-> ld, size |-> size,
                        stop_price |-> stop_price_of(request, reference, sd),
                        tp_price |-> tp_price_of(request, reference, ld) ]
        stop(why)  == [outcome |-> "reject", message |-> why, plan |-> NoPlan]
    IN  IF current <= 0 THEN stop({"Cannot get current price"})
        ELSE IF spread_too_wide(s, request0, spread) THEN stop({"Spread too wide"})
        ELSE IF entry_on_wrong_side(request0, current)
             THEN stop({"entry_price on the wrong side of current price"})
        ELSE IF ~checked.valid
             THEN [outcome |-> "invalid", message |-> checked.message,
                   plan |-> [NoPlan EXCEPT !.request = request, !.spread = spread]]
        ELSE IF stop_level_wrong_side(request, reference)
             THEN stop({"stop_level on the wrong side of reference price"})
        ELSE IF limit_level_wrong_side(request, reference)
             THEN stop({"limit_level on the wrong side of reference price"})
        ELSE IF plan.tp_price = NaN THEN stop({"Invalid price calculation"})
        ELSE [outcome |-> "go", message |-> {}, plan |-> plan]

-----------------------------------------------------------------------------
(* Ledger (app/models/trade.py) *)

\* Trade(...) as submit_trade builds it; created_at is the server default now()
Row(deal_id, request, size, sd, ld, stop_loss, take_profit, entry_price, status, reason, t) ==
    [ deal_id |-> deal_id, direction |-> request.direction, epic |-> "XAUUSD",
      size |-> size, entry_price |-> entry_price,
      stop_loss |-> stop_loss, take_profit |-> take_profit,
      stop_distance |-> sd, limit_distance |-> ld,
      status |-> status, rejection_reason |-> reason, pnl |-> Null,
      strategy |-> request.strategy, order_type |-> request.order_type,
      created_at |-> t, updated_at |-> Null, closed_at |-> Null ]

\* line 45, onupdate=func.now(): an UPDATE of a row stamps updated_at; the
\* session emits no UPDATE for a row none of whose columns changed
Updated(old, new, t) ==
    IF new = old THEN old ELSE [new EXCEPT !.updated_at = t]

\* Telegram message about a row or an order
Message(kind, id) == [kind |-> kind, id |-> id]
Send(kind, id) == notified (+) SetToBag({Message(kind, id)})

\* the close and partial-target messages of the monitor: one message each
send_close_update(id) == Send("close_update", id)
send_tp1_hit_update(id) == Send("tp1_hit", id)

-----------------------------------------------------------------------------
(* Broker gateway (app/services/ibkr_client.py) *)

\* IB keeps one net position per contract: qty > 0 long, qty < 0 short
NoPosition == [qty |-> 0, avg_cost |-> 0]

Signed(direction, size) == IF direction = "BUY" THEN size ELSE 0 - size

\* an entry order of `size` in `direction` filled at `price`
Filled(position, direction, size, price) ==
    LET q == position.qty + Signed(direction, size)
    IN  [ qty |-> q,
          avg_cost |-> IF q = 0 THEN 0
                       ELSE IF position.qty = 0 \/ (position.qty > 0) # (q > 0) THEN price
                       ELSE position.avg_cost ]

\* get_open_positions: the rows of ib.positions() with their direction
get_open_positions(position) ==
    IF position.qty = 0 THEN {}
    ELSE { [ instrument |-> "XAUUSD",
             direction |-> IF position.qty > 0 THEN "BUY" ELSE "SELL",
             size |-> position.qty,
             avg_cost |-> position.avg_cost ] }

\* books get_price may return: a normal book, a wide one, last only, nothing
Books ==
    { [bid |-> 2900, ask |-> 2901, last |-> 2900],
      [bid |-> 2900, ask |-> 2920, last |-> 2910],
      [bid |-> 0, ask |-> 0, last |-> 2900],
      [bid |-> 0, ask |-> 0, last |-> 0] }

\* results of ATRCalculator.get_dynamic_sl_tp: None, or (sl, tp)
AtrResults == { <<>>, <<45, 90>> }

\* NetLiquidation of get_account_info
Balances == { 10000 }

-----------------------------------------------------------------------------
(* submit_trade, step by step *)

Submitters == 1 .. NumSubmitters

NoResult == [deal_id |-> Null, fill_price |-> Null, status |-> NoStr, message |-> {}]

\* price_data before get_price has answered
NoPriceData == [bid |-> Null, ask |-> Null, last |-> Null]

IdleSubmit ==
    [ pc |-> "idle", request |-> NoReq, balance |-> Null, price_data |-> NoPriceData,
      plan |-> NoPlan,
      call |-> NoStr, result |-> NoResult, exc |-> NoStr, placed |-> 0,
      response |-> NoResponse ]

\* the requests submitted in the model, one for each way through submit_trade
Requests ==
    { Req("BUY",  "MARKET", Null, 50, 100, Null, Null, 1, NoStr, NoStr),
      Req("SELL", "MARKET", Null, 50, 100, Null, Null, 2, NoStr, M5_SCALP),
      Req("BUY",  "MARKET", Null, Null, Null, Null, Null, Null, "HIGH", NoStr),
      Req("BUY",  "LIMIT",  Null, 50, 100, Null, Null, 1, NoStr, NoStr),
      Req("BUY",  "LIMIT",  2890, 50, 100, Null, Null, 1, NoStr, NoStr),
      Req("BUY",  "STOP",   2890, 50, 100, Null, Null, 1, NoStr, NoStr),
      Req("BUY",  "MARKET", Null, 3, 100, Null, Null, 1, NoStr, NoStr),
      Req("BUY",  "MARKET", Null, 50, 20, Null, Null, 1, NoStr, NoStr),
      Req("BUY",  "MARKET", Null, Null, 100, 2950, Null, 1, NoStr, NoStr),
      Req("BUY",  "MARKET", Null, 50, NaN, Null, Null, 1, NoStr, NoStr) }

\* lines 49-60: the call, and the entry_price check of resting orders
SubmitStart(p, request) ==
    /\ sub[p].pc \in {"idle", "done", "raised"}
    /\ used.calls < MaxCalls
    /\ used' = [used EXCEPT !.calls = @ + 1]
    /\ sub' = [sub EXCEPT ![p] =
                 IF is_pending(request) /\ request.entry_price = Null
                 THEN [IdleSubmit EXCEPT !.pc = "done", !.request = request,
                          !.response = reject({"entry_price is required"})]
                 ELSE [IdleSubmit EXCEPT !.pc = "risk", !.request = request]]
    /\ UNCHANGED <<atrc, lastcall, settings, rows, now, pos, orders, nextOrderId, cp, cn, md, mon, notified, rm>>

\* the strategy submit_trade hands to can_trade: none (line 66)
admission_strategy(request) == NoStr

\* lines 62-68: get_account_info, then can_trade on the ledger as it is now
SubmitRisk(p, balance) ==
    /\ sub[p].pc = "risk"
    /\ \/ \* get_account_info raises: nothing catches it
          sub' = [sub EXCEPT ![p].pc = "raised", ![p].exc = "get_account_info failed"]
       \/ LET answer == can_trade(settings, rows, now, balance,
                                  admission_strategy(sub[p].request))
          IN  sub' = [sub EXCEPT ![p] =
                        IF answer.ok
                        THEN [@ EXCEPT !.pc = "price", !.balance = balance]
                        ELSE [@ EXCEPT !.pc = "done", !.balance = balance,
                                 !.response = reject({answer.reason.kind})]]
    /\ UNCHANGED <<atrc, lastcall, settings, rows, now, pos, orders, nextOrderId, cp, cn, md, mon, notified, rm, used>>

\* lines 70-247: get_price, the checks, the distances and the size; a request the
\* validator refuses is written to the ledger as REJECTED and notified
SubmitPrice(p, book, atr) ==
    /\ sub[p].pc = "price"
    /\ \/ \* get_price raises: nothing catches it
          /\ sub' = [sub EXCEPT ![p].pc = "raised", ![p].exc = "get_price failed"]
          /\ UNCHANGED <<rows, notified>>
       \/  LET prep == prepare(settings, sub[p].request, book, atr, sub[p].balance, now)
                id   == Len(rows) + 1
            IN  CASE prep.outcome = "reject" ->
                       /\ sub' = [sub EXCEPT ![p].pc = "done", ![p].price_data = book,
                                             ![p].response = reject(prep.message)]
                       /\ UNCHANGED <<rows, notified>>
                  [] prep.outcome = "invalid" ->
                       /\ rows' = Append(rows,
                              Row(Null, prep.plan.request, 0, Null, Null, Null, Null, Null,
                                  REJECTED, prep.message, now))
                       /\ notified' = Send("rejection", id)
                       /\ sub' = [sub EXCEPT ![p].pc = "done", ![p].price_data = book,
                                             ![p].response =
                                                [reject(prep.message) EXCEPT !.trade_id = id]]
                  [] prep.outcome = "go" ->
                       /\ sub' = [sub EXCEPT ![p].pc = "execute", ![p].price_data = book,
                                             ![p].plan = prep.plan]
                       /\ UNCHANGED <<rows, notified>>
    /\ UNCHANGED <<atrc, lastcall, settings, now, pos, orders, nextOrderId, cp, cn, md, mon, rm, used>>

\* a mutation of market_status: an entry that did not fill reported as REJECTED
market_status_rejecting(broker_status) ==
    IF broker_status = "Filled" THEN EXECUTED ELSE REJECTED

\* lines 295-299
market_status(broker_status) ==
    IF broker_status = "Filled" THEN EXECUTED ELSE FAILED

\* a mutation of on_exception: the except clause gone, the error leaves submit_trade
on_exception_uncaught(me, text) ==
    [me EXCEPT !.pc = "raised", !.exc = text, !.placed = @ + 1]

\* lines 301-306: except Exception as e
on_exception(me, text) ==
    [me EXCEPT !.pc = "log", !.exc = text, !.placed = @ + 1,
        !.result = [ deal_id |-> Null,
                     fill_price |-> IF is_pending(me.plan.request) THEN Null
                                    ELSE me.plan.current_price,
                     status |-> FAILED,
                     message |-> {"Execution failed", text} ]]

\* lines 249-306: the gateway call that places the order.  A market entry comes
\* back Filled, still working after the fill wait (Submitted), or Cancelled; a
\* resting entry comes back placed; either call may raise
SubmitExecute(p) ==
    /\ sub[p].pc = "execute"
    /\ LET me   == sub[p]
           plan == me.plan
           call == broker_call(settings, plan.request, plan.size, get_instrument(NoStr))
           id   == nextOrderId
       IN  \/ /\ sub' = [sub EXCEPT ![p] =
                           on_exception([me EXCEPT !.call = call], "IBKR connection lost")]
              /\ UNCHANGED <<pos, orders, nextOrderId>>
           \/ /\ is_pending(plan.request)
              /\ orders' = orders \cup
                    { [ id |-> id, direction |-> plan.request.direction,
                        size |-> plan.size, kind |-> "resting",
                        price |-> plan.request.entry_price ] }
              /\ nextOrderId' = id + 1
              /\ sub' = [sub EXCEPT ![p].pc = "log", ![p].call = call,
                           ![p].placed = @ + 1,
                           ![p].result = [ deal_id |-> id, fill_price |-> Null,
                                           status |-> PENDING_ORDER,
                                           message |-> {"Pending order placed"} ]]
              /\ pos' = pos
           \/ /\ ~is_pending(plan.request)
              /\ \E st \in {"Filled", "Submitted", "Cancelled"} :
                   /\ pos' = IF st = "Filled"
                             THEN Filled(pos, plan.request.direction, plan.size,
                                         plan.current_price)
                             ELSE pos
                   /\ orders' = IF st = "Submitted"
                                THEN orders \cup
                                       { [ id |-> id, direction |-> plan.request.direction,
                                           size |-> plan.size, kind |-> "working",
                                           price |-> plan.current_price ] }
                                ELSE orders
                   /\ nextOrderId' = id + 1
                   /\ sub' = [sub EXCEPT ![p].pc = "log", ![p].call = call,
                                ![p].placed = @ + 1,
                                ![p].result =
                                   [ deal_id |-> id,
                                     fill_price |-> plan.current_price,
                                     status |-> market_status(st),
                                     message |-> {"Trade " \o st} ]]
    /\ UNCHANGED <<atrc, lastcall, settings, rows, now, cp, cn, md, mon, notified, rm, used>>

\* lines 308-360: the row, the notification and the response
SubmitLog(p) ==
    /\ sub[p].pc = "log"
    /\ LET me      == sub[p]
           plan    == me.plan
           pending == is_pending(plan.request)
           id      == Len(rows) + 1
           entry   == IF pending THEN plan.request.entry_price ELSE me.result.fill_price
           tp      == IF plan.request.strategy = M5_SCALP /\ ~pending THEN Null
                      ELSE plan.tp_price
       IN  /\ rows' = Append(rows,
                 Row(me.result.deal_id, plan.request, plan.size, plan.stop_distance,
                     plan.limit_distance, plan.stop_price, tp, entry,
                     me.result.status, {}, now))
           /\ notified' = Send(IF pending THEN "pending_order_update" ELSE "trade_update", id)
           /\ sub' = [sub EXCEPT ![p].pc = "done",
                        ![p].response =
                           [ trade_id |-> id, deal_id |-> me.result.deal_id,
                             status |-> me.result.status, size |-> plan.size,
                             stop_distance |-> plan.stop_distance,
                             limit_distance |-> plan.limit_distance,
                             entry_price |-> entry, message |-> me.result.message ]]
    /\ UNCHANGED <<atrc, lastcall, settings, now, pos, orders, nextOrderId, cp, cn, md, mon, rm, used>>

-----------------------------------------------------------------------------
(* close_position (app/api/positions.py) *)

IdleClose ==
    [ pc |-> "idle", direction |-> "BUY", size |-> Null, avg_cost |-> Null,
      position_size |-> Null, close_size |-> Null, close_price |-> Null,
      status |-> NoStr, pnl |-> Null, trade |-> 0, http |-> 0 ]

\* fill prices of the closing market order
ClosePrices == { 2895, 2910 }

\* lines 62-81: find the open position and the size to close
CloseStart(direction, size) ==
    /\ cp.pc \in {"idle", "done", "raised"}
    /\ used.calls < MaxCalls
    /\ used' = [used EXCEPT !.calls = @ + 1]
    /\ LET matching == { q \in get_open_positions(pos) : q.direction = direction } IN
       \/ \* get_open_positions raises outside the try block
          cp' = [IdleClose EXCEPT !.pc = "raised", !.direction = direction]
       \/ /\ matching = {}
          /\ cp' = [IdleClose EXCEPT !.pc = "done", !.direction = direction, !.http = 404]
       \/ /\ matching # {}
          /\ LET position   == CHOOSE q \in matching : TRUE
                 close_size == OrElse(size, Abs(position.size))
             IN  cp' = IF close_size > Abs(position.size)
                       THEN [IdleClose EXCEPT !.pc = "done", !.direction = direction,
                                !.http = 400]
                       ELSE [IdleClose EXCEPT !.pc = "close", !.direction = direction,
                                !.size = size, !.avg_cost = position.avg_cost,
                                !.position_size = Abs(position.size),
                                !.close_size = close_size]
    /\ UNCHANGED <<atrc, lastcall, settings, rows, now, pos, orders, nextOrderId, sub, cn, md, mon, notified, rm>>

\* lines 90-96: pnl stays None without a fill price or an average cost
close_pnl(direction, close_price, avg_cost, close_size, instrument) ==
    IF close_price = Null \/ close_price = 0 \/ avg_cost = 0 THEN Null
    ELSE IF direction = "BUY"
         THEN (close_price - avg_cost) * close_size * instrument.multiplier
         ELSE (avg_cost - close_price) * close_size * instrument.multiplier

\* lines 83-96: the closing market order; it fills, or the fill wait times out
\* with no fill price, or the call raises (answered with a 500)
CloseOrder(price) ==
    /\ cp.pc = "close"
    /\ LET opposite == IF cp.direction = "BUY" THEN "SELL" ELSE "BUY" IN
       \/ /\ cp' = [cp EXCEPT !.pc = "done", !.http = 500]
          /\ pos' = pos
       \/  /\ pos' = Filled(pos, opposite, cp.close_size, price)
            /\ cp' = [cp EXCEPT !.pc = "read", !.close_price = price, !.status = "closed",
                        !.pnl = close_pnl(cp.direction, price, cp.avg_cost, cp.close_size,
                                          get_instrument(NoStr))]
       \/ /\ pos' = pos
          /\ cp' = [cp EXCEPT !.pc = "read", !.close_price = Null, !.status = "Submitted",
                      !.pnl = close_pnl(cp.direction, Null, cp.avg_cost, cp.close_size,
                                        get_instrument(NoStr))]
    /\ UNCHANGED <<atrc, lastcall, settings, rows, now, orders, nextOrderId, sub, cn, md, mon, notified, rm, used>>

\* a mutation of latest_executed: the status filter of the query dropped
latest_of_any_status(ledger, direction) ==
    LET found == { i \in DOMAIN ledger :
                     ledger[i].direction = direction /\ ledger[i].epic = "XAUUSD" }
    IN  IF found = {} THEN 0 ELSE CHOOSE i \in found : \A j \in found : i >= j

\* lines 99-108 (and 177-186): the most recent EXECUTED row of the direction
\* and instrument, 0 when there is none
latest_executed(ledger, direction) ==
    LET found == { i \in DOMAIN ledger :
                     /\ ledger[i].direction = direction
                     /\ ledger[i].epic = "XAUUSD"
                     /\ ledger[i].status = EXECUTED }
    IN  IF found = {} THEN 0 ELSE CHOOSE i \in found : \A j \in found : i >= j

\* lines 99-108: the select
CloseRead ==
    /\ cp.pc = "read"
    /\ cp' = [cp EXCEPT !.pc = "commit", !.trade = latest_executed(rows, cp.direction)]
    /\ UNCHANGED <<atrc, lastcall, settings, rows, now, pos, orders, nextOrderId, sub, cn, md, mon, notified, rm, used>>

\* lines 109-135: the UPDATE by row id at commit, the message and the response
CloseCommit ==
    /\ cp.pc = "commit"
    /\ rows' = IF cp.trade = 0 THEN rows
               ELSE [rows EXCEPT ![cp.trade] =
                        Updated(@, [@ EXCEPT !.status = CLOSED, !.pnl = cp.pnl,
                                             !.closed_at = now], now)]
    /\ notified' = Send("position_closed", cp.trade)
    /\ cp' = [cp EXCEPT !.pc = "done", !.http = 200]
    /\ UNCHANGED <<atrc, lastcall, settings, now, pos, orders, nextOrderId, sub, cn, md, mon, rm, used>>

-----------------------------------------------------------------------------
(* TradeCloseMonitor (app/services/trade_monitor.py) *)

\* open_trades holds the Trade objects as the select loaded them
IdleMonitor ==
    [ pc |-> "sleep", position_map |-> [d \in Directions |-> 0], open_trades |-> <<>>,
      k |-> 0, price_data |-> NoPriceData, pnl |-> Null, close_price |-> Null, t |-> Null,
      last_known_sizes |-> {}, exc |-> NoStr, skipped |-> FALSE ]

\* lines 65-68: (instrument, direction) -> summed abs(size)
position_map_of(position) ==
    [ d \in Directions |->
        IF \E q \in get_open_positions(position) : q.direction = d
        THEN Abs(position.qty) ELSE 0 ]

MonitorFetch_blind ==
    /\ mon.pc = "sleep"
    /\ \/ /\ mon' = [mon EXCEPT !.pc = "select", !.skipped = TRUE,
                                  !.position_map = [d \in Directions |-> 0]]
          /\ used' = used
       \/ /\ mon' = [mon EXCEPT !.pc = "select", !.skipped = FALSE,
                                  !.position_map = position_map_of(pos)]
          /\ used' = [used EXCEPT !.polls = Min(@ + 1, MaxPolls)]
    /\ UNCHANGED <<atrc, lastcall, settings, rows, now, pos, orders, nextOrderId, sub, cp, cn, md, notified, rm>>

\* lines 57-68: the positions of this tick; a failed fetch is logged and skips
\* the tick (skipped: the last tick was skipped so).
\* used.polls numbers the polls that fetched the positions
MonitorFetch ==
    /\ mon.pc = "sleep"
    /\ \/ /\ mon' = [mon EXCEPT !.skipped = TRUE]
          /\ used' = used
       \/ /\ mon' = [mon EXCEPT !.pc = "select", !.skipped = FALSE,
                                  !.position_map = position_map_of(pos)]
          /\ used' = [used EXCEPT !.polls = Min(@ + 1, MaxPolls)]
    /\ UNCHANGED <<atrc, lastcall, settings, rows, now, pos, orders, nextOrderId, sub, cp, cn, md, notified, rm>>

RECURSIVE Ascending(_)
Ascending(ids) ==
    IF ids = {} THEN <<>>
    ELSE LET m == CHOOSE i \in ids : \A j \in ids : i <= j
         IN  <<m>> \o Ascending(ids \ {m})

\* lines 71-78: the EXECUTED rows, as read now
MonitorSelect ==
    /\ mon.pc = "select"
    /\ LET ids  == Ascending({ i \in DOMAIN rows : rows[i].status = EXECUTED })
           read == [ k \in DOMAIN ids |-> [id |-> ids[k], row |-> rows[ids[k]]] ]
       IN  mon' = IF ids = <<>> THEN [mon EXCEPT !.pc = "sleep"]
                  ELSE [mon EXCEPT !.pc = "loop", !.open_trades = read, !.k = 1]
    /\ UNCHANGED <<atrc, lastcall, settings, rows, now, pos, orders, nextOrderId, sub, cp, cn, md, notified, rm, used>>

track_forgetful(m, id, ibkr_size) ==
    IF m.k >= Len(m.open_trades)
    THEN [m EXCEPT !.pc = "sleep", !.open_trades = <<>>, !.k = 0, !.price_data = NoPriceData,
            !.pnl = Null, !.close_price = Null, !.t = Null]
    ELSE [m EXCEPT !.pc = "loop", !.k = @ + 1, !.price_data = NoPriceData, !.pnl = Null,
            !.close_price = Null, !.t = Null]

\* lines 93-97, then the next trade of the for loop
track(m, id, ibkr_size) ==
    LET others == { e \in m.last_known_sizes : e[1] # id }
        sizes  == IF ibkr_size > 0 THEN others \cup { <<id, ibkr_size>> } ELSE others
    IN  IF m.k >= Len(m.open_trades)
        THEN [m EXCEPT !.pc = "sleep", !.last_known_sizes = sizes, !.open_trades = <<>>,
                !.k = 0, !.price_data = NoPriceData, !.pnl = Null, !.close_price = Null,
                !.t = Null]
        ELSE [m EXCEPT !.pc = "loop", !.last_known_sizes = sizes, !.k = @ + 1,
                !.price_data = NoPriceData, !.pnl = Null, !.close_price = Null, !.t = Null]

monitor_pnl_long_only(row, close_price, instrument) ==
    IF row.entry_price # Null /\ row.entry_price # 0 /\ close_price # 0
    THEN (close_price - row.entry_price) * row.size * instrument.multiplier
    ELSE 0

\* lines 106-120: the close price (last, else bid, else 0) and the profit/loss
monitor_pnl(row, close_price, instrument) ==
    IF row.entry_price # Null /\ row.entry_price # 0 /\ close_price # 0
    THEN IF row.direction = "BUY"
         THEN (close_price - row.entry_price) * row.size * instrument.multiplier
         ELSE (row.entry_price - close_price) * row.size * instrument.multiplier
    ELSE 0

MonitorVisit_any_strategy(book) ==
    /\ mon.pc = "loop"
    /\ LET trade     == mon.open_trades[mon.k]
           ibkr_size == mon.position_map[trade.row.direction]
           known     == { e \in mon.last_known_sizes : e[1] = trade.id }
       IN  IF ibkr_size = 0
           THEN /\ \/ mon' = [mon EXCEPT !.pc = "reread", !.t = now, !.close_price = 0,
                                !.pnl = monitor_pnl(trade.row, 0, get_instrument(NoStr))]
                   \/  LET price == IF book.last # 0 THEN book.last ELSE book.bid IN
                        mon' = [mon EXCEPT !.pc = "reread", !.t = now, !.price_data = book,
                                  !.close_price = price,
                                  !.pnl = monitor_pnl(trade.row, price,
                                                      get_instrument(NoStr))]
                /\ notified' = notified
           ELSE /\ notified' =
                     IF /\ known # {}
                        /\ \E e \in known : ibkr_size < e[2]
                     THEN send_tp1_hit_update(trade.id)
                     ELSE notified
                /\ mon' = track(mon, trade.id, ibkr_size)
    /\ UNCHANGED <<atrc, lastcall, settings, rows, now, pos, orders, nextOrderId, sub, cp, cn, md, rm, used>>

\* lines 80-92 and 99-120: one trade of the loop, up to the await of the re-read
MonitorVisit(book) ==
    /\ mon.pc = "loop"
    /\ LET trade     == mon.open_trades[mon.k]
           ibkr_size == mon.position_map[trade.row.direction]
           known     == { e \in mon.last_known_sizes : e[1] = trade.id }
       IN  IF ibkr_size = 0
           THEN /\ \/ \* get_price raises: close_price = 0.0
                      mon' = [mon EXCEPT !.pc = "reread", !.t = now, !.close_price = 0,
                                !.pnl = monitor_pnl(trade.row, 0, get_instrument(NoStr))]
                   \/  LET price == IF book.last # 0 THEN book.last ELSE book.bid IN
                        mon' = [mon EXCEPT !.pc = "reread", !.t = now, !.price_data = book,
                                  !.close_price = price,
                                  !.pnl = monitor_pnl(trade.row, price,
                                                      get_instrument(NoStr))]
                /\ notified' = notified
           ELSE /\ notified' =
                     IF /\ known # {}
                        /\ \E e \in known : ibkr_size < e[2]
                        /\ trade.row.strategy = M5_SCALP
                     THEN send_tp1_hit_update(trade.id)
                     ELSE notified
                /\ mon' = track(mon, trade.id, ibkr_size)
    /\ UNCHANGED <<atrc, lastcall, settings, rows, now, pos, orders, nextOrderId, sub, cp, cn, md, rm, used>>

MonitorReread_skip ==
    /\ mon.pc = "reread"
    /\ mon' = track(mon, mon.open_trades[mon.k].id, 0)
    /\ UNCHANGED <<atrc, lastcall, settings, rows, now, pos, orders, nextOrderId, sub, cp, cn, md, notified, rm, used>>

\* lines 135-141: the row read again in a fresh session
MonitorReread ==
    /\ mon.pc = "reread"
    /\ LET trade == mon.open_trades[mon.k] IN
       mon' = IF rows[trade.id].status # EXECUTED
              THEN track(mon, trade.id, 0)
              ELSE [mon EXCEPT !.pc = "commit"]
    /\ UNCHANGED <<atrc, lastcall, settings, rows, now, pos, orders, nextOrderId, sub, cp, cn, md, notified, rm, used>>

MonitorCommit_reprice ==
    /\ mon.pc = "commit"
    /\ LET trade == mon.open_trades[mon.k] IN
       /\ rows' = [rows EXCEPT ![trade.id] =
                       Updated(@, [@ EXCEPT !.status = CLOSED, !.pnl = mon.pnl,
                                            !.closed_at = mon.t,
                                            !.entry_price = mon.close_price], now)]
       /\ notified' = send_close_update(trade.id)
       /\ mon' = track(mon, trade.id, 0)
    /\ UNCHANGED <<atrc, lastcall, settings, now, pos, orders, nextOrderId, sub, cp, cn, md, rm, used>>

\* lines 143-154: the UPDATE by row id at commit, then the message
MonitorCommit ==
    /\ mon.pc = "commit"
    /\ LET trade == mon.open_trades[mon.k] IN
       /\ rows' = [rows EXCEPT ![trade.id] =
                       Updated(@, [@ EXCEPT !.status = CLOSED, !.pnl = mon.pnl,
                                            !.closed_at = mon.t], now)]
       /\ notified' = send_close_update(trade.id)
       /\ mon' = track(mon, trade.id, 0)
    /\ UNCHANGED <<atrc, lastcall, settings, now, pos, orders, nextOrderId, sub, cp, cn, md, rm, used>>

\* the frame of _check_once left by an exception: its locals are gone, the
\* monitor object keeps _last_known_sizes
Unwound(m, e) ==
    [IdleMonitor EXCEPT !.pc = "raised", !.exc = e, !.last_known_sizes = m.last_known_sizes]

\* lines 71-75, 135-138, 146: a statement of the session raises inside the tick
MonitorRaise ==
    /\ mon.pc \in {"select", "reread", "commit"}
    /\ mon' = Unwound(mon, "Exception")
    /\ UNCHANGED <<atrc, lastcall, settings, rows, now, pos, orders, nextOrderId, sub, cp, cn, md, notified, rm, used>>

\* main.py lines 88-93: monitor_task.cancel() at shutdown; CancelledError is
\* thrown into the task at the await it is suspended on, in the tick or in the sleep
MonitorCancel ==
    /\ mon.pc \in {"sleep", "select", "loop", "reread", "commit"}
    /\ mon' = Unwound(mon, "CancelledError")
    /\ UNCHANGED <<atrc, lastcall, settings, rows, now, pos, orders, nextOrderId, sub, cp, cn, md, notified, rm, used>>

MonitorCatch_reraise ==
    /\ mon.pc = "raised"
    /\ mon' = [mon EXCEPT !.pc = "ended"]
    /\ UNCHANGED <<atrc, lastcall, settings, rows, now, pos, orders, nextOrderId, sub, cp, cn, md, notified, rm, used>>

\* lines 45-53: run_forever re-raises CancelledError, logs any other exception
\* (exc keeps the last one logged) and sleeps; a CancelledError out of the
\* sleep leaves the loop the same way
MonitorCatch ==
    /\ mon.pc = "raised"
    /\ mon' = IF mon.exc = "CancelledError"
              THEN [mon EXCEPT !.pc = "ended"]
              ELSE [mon EXCEPT !.pc = "sleep"]
    /\ UNCHANGED <<atrc, lastcall, settings, rows, now, pos, orders, nextOrderId, sub, cp, cn, md, notified, rm, used>>

-----------------------------------------------------------------------------
(* cancel_order (app/api/trades.py) *)

IdleCancel == [pc |-> "idle", direction |-> "BUY", cancelled_ids |-> {}, http |-> 0]

\* lines 48-72: the broker cancels; a given order_id that is not open answers 404,
\* else every resting order of the direction is tried and each cancel may fail
CancelStart(direction, order_id) ==
    /\ cn.pc \in {"idle", "done"}
    /\ used.calls < MaxCalls
    /\ used' = [used EXCEPT !.calls = @ + 1]
    /\ LET matching == { o \in orders : o.kind = "resting" /\ o.direction = direction } IN
       IF order_id # Null
       THEN IF \E o \in orders : o.id = order_id
            THEN /\ orders' = { o \in orders : o.id # order_id }
                 /\ cn' = [IdleCancel EXCEPT !.pc = "db", !.direction = direction,
                             !.cancelled_ids = {order_id}]
            ELSE /\ orders' = orders
                 /\ cn' = [IdleCancel EXCEPT !.pc = "done", !.direction = direction,
                             !.http = 404]
       ELSE IF matching = {}
            THEN /\ orders' = orders
                 /\ cn' = [IdleCancel EXCEPT !.pc = "done", !.direction = direction,
                             !.http = 404]
            ELSE \E ok \in SUBSET matching :
                   /\ orders' = orders \ ok
                   /\ cn' = IF ok = {}
                            THEN [IdleCancel EXCEPT !.pc = "done", !.direction = direction,
                                     !.http = 500]
                            ELSE [IdleCancel EXCEPT !.pc = "db", !.direction = direction,
                                     !.cancelled_ids = { o.id : o \in ok }]
    /\ UNCHANGED <<atrc, lastcall, settings, rows, now, pos, nextOrderId, sub, cp, md, mon, notified, rm>>

\* lines 76-83: the row of an order id, if it is still PENDING_ORDER (limit 1)
pending_row_of(ledger, order_id) ==
    LET found == { i \in DOMAIN ledger :
                     ledger[i].deal_id = order_id /\ ledger[i].status = PENDING_ORDER }
    IN  IF found = {} THEN 0 ELSE CHOOSE i \in found : \A j \in found : i <= j

CancelDb_by_direction ==
    /\ cn.pc = "db"
    /\ rows' = [ i \in DOMAIN rows |->
                   IF rows[i].status = PENDING_ORDER /\ rows[i].direction = cn.direction
                   THEN Updated(rows[i], [rows[i] EXCEPT !.status = CANCELLED], now)
                   ELSE rows[i] ]
    /\ notified' = Send("cancel_update", 0)
    /\ cn' = [cn EXCEPT !.pc = "done", !.http = 200]
    /\ UNCHANGED <<atrc, lastcall, settings, now, pos, orders, nextOrderId, sub, cp, md, mon, rm, used>>

\* lines 74-102: the rows of the cancelled orders become CANCELLED
CancelDb ==
    /\ cn.pc = "db"
    /\ LET hit == { pending_row_of(rows, id) : id \in cn.cancelled_ids } \ {0} IN
       rows' = [ i \in DOMAIN rows |->
                   IF i \in hit
                   THEN Updated(rows[i], [rows[i] EXCEPT !.status = CANCELLED], now)
                   ELSE rows[i] ]
    /\ notified' = Send("cancel_update", 0)
    /\ cn' = [cn EXCEPT !.pc = "done", !.http = 200]
    /\ UNCHANGED <<atrc, lastcall, settings, now, pos, orders, nextOrderId, sub, cp, md, mon, rm, used>>

-----------------------------------------------------------------------------
(* modify_position (app/api/positions.py) *)

IdleModify == [pc |-> "idle", direction |-> "BUY", new_sl |-> Null, new_tp |-> Null, http |-> 0]

\* lines 155-174: modify_sl_tp finds the child orders of an open position of the
\* direction, or raises RuntimeError (404)
ModifyStart(direction, new_sl, new_tp) ==
    /\ md.pc \in {"idle", "done"}
    /\ used.calls < MaxCalls
    /\ used' = [used EXCEPT !.calls = @ + 1]
    /\ md' = IF new_sl = Null /\ new_tp = Null
             THEN [IdleModify EXCEPT !.pc = "done", !.http = 400]
             ELSE IF \E q \in get_open_positions(pos) : q.direction = direction
                  THEN [IdleModify EXCEPT !.pc = "db", !.direction = direction,
                           !.new_sl = new_sl, !.new_tp = new_tp]
                  ELSE [IdleModify EXCEPT !.pc = "done", !.http = 404]
    /\ UNCHANGED <<atrc, lastcall, settings, rows, now, pos, orders, nextOrderId, sub, cp, cn, mon, notified, rm>>

ModifyDb_overwrite ==
    /\ md.pc = "db"
    /\ LET trade == latest_executed(rows, md.direction) IN
       rows' = IF trade = 0 THEN rows
               ELSE [rows EXCEPT ![trade] =
                        Updated(@, [@ EXCEPT !.stop_loss = md.new_sl,
                                             !.take_profit = md.new_tp], now)]
    /\ notified' = Send("modify_update", 0)
    /\ md' = [md EXCEPT !.pc = "done", !.http = 200]
    /\ UNCHANGED <<atrc, lastcall, settings, now, pos, orders, nextOrderId, sub, cp, cn, mon, rm, used>>

\* lines 176-214: the new levels written to the most recent EXECUTED row
ModifyDb ==
    /\ md.pc = "db"
    /\ LET trade == latest_executed(rows, md.direction) IN
       rows' = IF trade = 0 THEN rows
               ELSE [rows EXCEPT ![trade] =
                       Updated(@, [@ EXCEPT
                          !.stop_loss = IF md.new_sl # Null THEN md.new_sl ELSE @,
                          !.take_profit = IF md.new_tp # Null THEN md.new_tp ELSE @], now)]
    /\ notified' = Send("modify_update", 0)
    /\ md' = [md EXCEPT !.pc = "done", !.http = 200]
    /\ UNCHANGED <<atrc, lastcall, settings, now, pos, orders, nextOrderId, sub, cp, cn, mon, rm, used>>

-----------------------------------------------------------------------------
(* The broker and the clock *)

\* an entry order fills at the broker: a resting LIMIT/STOP entry reached by the
\* market, or a market entry that was still working when the fill wait ended
BrokerFill ==
    /\ \E o \in orders :
         /\ pos' = Filled(pos, o.direction, o.size, o.price)
         /\ orders' = orders \ {o}
    /\ UNCHANGED <<atrc, lastcall, settings, rows, now, nextOrderId, sub, cp, cn, md, mon, notified, rm, used>>

\* a child order of a bracket fills: the stop or the last target flattens the
\* position, a first partial target takes one unit off it
BrokerExit ==
    /\ pos.qty # 0
    /\ \/ pos' = NoPosition
       \/ /\ Abs(pos.qty) > 1
          /\ pos' = [pos EXCEPT !.qty = IF @ > 0 THEN @ - 1 ELSE @ + 1]
    /\ UNCHANGED <<atrc, lastcall, settings, rows, now, orders, nextOrderId, sub, cp, cn, md, mon, notified, rm, used>>

\* twelve hours pass
TickMinutes == 12 * 60

Tick ==
    /\ used.ticks < MaxTicks
    /\ used' = [used EXCEPT !.ticks = @ + 1]
    /\ now' = now + TickMinutes
    /\ UNCHANGED <<atrc, lastcall, settings, rows, pos, orders, nextOrderId, sub, cp, cn, md, mon, notified, rm>>

-----------------------------------------------------------------------------
(* Ledgers the service may start from *)

\* a row closed earlier, as CloseCommit or MonitorCommit leaves it
ClosedRow(strategy, pnl, created_at, closed_at) ==
    [ Row(1, [NoReq EXCEPT !.strategy = strategy, !.stop_distance = 50,
                           !.limit_distance = 100],
          1, 50, 100, 2850, 3000, 2900, CLOSED, {}, created_at)
      EXCEPT !.pnl = pnl, !.closed_at = closed_at ]

\* Monday 10:00 UTC, inside the London session
StartTime == 10 * 60

\* four winning trades opened and closed this morning
FourTradesToday ==
    << ClosedRow("swing", 50, 420, 450), ClosedRow("swing", 50, 460, 480),
       ClosedRow("swing", 50, 490, 520), ClosedRow("swing", 50, 530, 560) >>

\* two losing scalps, then a winning trade of another strategy
ScalpLossesThenWin ==
    << ClosedRow(M5_SCALP, 0 - 10, 570, 590), ClosedRow(M5_SCALP, 0 - 10, 580, 595),
       ClosedRow("swing", 50, 585, 598) >>

StartLedgers == { <<>>, FourTradesToday, ScalpLossesThenWin }

\* no call of can_trade made yet
NoQuery ==
    [ strategy |-> NoStr, balance |-> 0, asked |-> FALSE,
      answer |-> can_trade_from(<<>>, 1, <<>>, DefaultSettings, <<>>, 0, 0) ]

\* the service as started, on one of the given ledgers
InitOn(ledgers) ==
    /\ settings = DefaultSettings
    /\ rows \in ledgers
    /\ now = StartTime
    /\ pos = NoPosition
    /\ orders = {}
    /\ nextOrderId = 1
    /\ sub = [p \in Submitters |-> IdleSubmit]
    /\ cp = IdleClose
    /\ cn = IdleCancel
    /\ md = IdleModify
    /\ mon = IdleMonitor
    /\ notified = EmptyBag
    /\ rm = NoQuery
    /\ lastcall = NoCall
    /\ atrc = NoCalculator
    /\ used = [calls |-> 0, ticks |-> 0, polls |-> 0]

-----------------------------------------------------------------------------
(* The service: one client submitting, closing, cancelling and modifying,    *)
(* the monitor, the broker and the clock                                     *)

NormalBook == [bid |-> 2900, ask |-> 2901, last |-> 2900]
HigherBook == [bid |-> 2900, ask |-> 2920, last |-> 2910]

\* requests that end as EXECUTED / FAILED, PENDING_ORDER and REJECTED rows
ServiceRequests ==
    { Req("BUY",  "MARKET", Null, 50, 100, Null, Null, 1, NoStr, NoStr),
      Req("SELL", "MARKET", Null, 50, 100, Null, Null, 2, NoStr, M5_SCALP),
      Req("BUY",  "LIMIT",  2890, 50, 100, Null, Null, 1, NoStr, NoStr),
      Req("BUY",  "MARKET", Null, 50, 20, Null, Null, 1, NoStr, NoStr) }

CloseSizes == { Null, 1 }
ModifyLevels == { Null, 2850 }

Init == InitOn({ <<>> })

Next ==
    \/ \E request \in ServiceRequests : SubmitStart(1, request)
    \/ \E balance \in Balances : SubmitRisk(1, balance)
    \/ SubmitPrice(1, NormalBook, <<>>)
    \/ SubmitExecute(1)
    \/ SubmitLog(1)
    \/ \E d \in Directions, size \in CloseSizes : CloseStart(d, size)
    \/ \E price \in ClosePrices : CloseOrder(price)
    \/ CloseRead
    \/ CloseCommit
    \/ \E d \in Directions, id \in {Null} \cup (1 .. MaxCalls) : CancelStart(d, id)
    \/ CancelDb
    \/ \E d \in Directions, sl \in ModifyLevels, tp \in ModifyLevels : ModifyStart(d, sl, tp)
    \/ ModifyDb
    \/ MonitorFetch
    \/ MonitorSelect
    \/ \E book \in {NormalBook, HigherBook} : MonitorVisit(book)
    \/ MonitorReread
    \/ MonitorCommit
    \/ BrokerFill
    \/ BrokerExit
    \/ Tick

Spec == Init /\ [][Next]_vars

-----------------------------------------------------------------------------
(* Submissions alone: every request on every book, a second client sending   *)
(* plain market orders at the same time, on each of the start ledgers        *)

ConcurrentRequests == { Req("BUY", "MARKET", Null, 50, 100, Null, Null, 1, NoStr, NoStr) }

InitSubmit == InitOn(StartLedgers)

NextSubmit ==
    \/ \E request \in Requests : SubmitStart(1, request)
    \/ \E p \in Submitters \ {1}, request \in ConcurrentRequests : SubmitStart(p, request)
    \/ \E p \in Submitters, balance \in Balances : SubmitRisk(p, balance)
    \/ \E book \in Books, atr \in AtrResults : SubmitPrice(1, book, atr)
    \/ \E p \in Submitters \ {1} : SubmitPrice(p, NormalBook, <<>>)
    \/ \E p \in Submitters : SubmitExecute(p)
    \/ \E p \in Submitters : SubmitLog(p)
    \/ Tick

SpecSubmit == InitSubmit /\ [][NextSubmit]_vars

-----------------------------------------------------------------------------
(* The risk manager alone: can_trade asked on drawn ledger histories         *)

\* Tuesday 10:00 UTC
RiskTime == MinutesPerDay + StartTime

\* when a row of a history was closed: on Monday, early on Tuesday, or within
\* the last minutes before RiskTime
Epochs == <<StartTime, RiskTime - 180, RiskTime - 8>>

\* a losing and a winning trade, of the scalp strategy and of another one
Outcomes == { <<M5_SCALP, 0 - 400>>, <<M5_SCALP, 50>>, <<"swing", 0 - 400>>, <<"swing", 50>> }

\* the history of n closed trades in time order: the first a closed on Monday,
\* the next up to b early on Tuesday, the rest just before RiskTime
History(h, a, b) ==
    [ k \in DOMAIN h |->
        LET at == Epochs[IF k <= a THEN 1 ELSE IF k <= b THEN 2 ELSE 3] + k
        IN  ClosedRow(h[k][1], h[k][2], at - 1, at) ]

\* n losing trades of one strategy in a row, closed a minute apart up to
\* half an hour before RiskTime
Streak(n, strategy) ==
    [ k \in 1 .. n |->
        ClosedRow(strategy, 0 - 10, RiskTime - 61 + k, RiskTime - 60 + k) ]

\* a long position of 10 opened at 2950 half an hour before RiskTime and still
\* open, with its EXECUTED row
OpenLong == [qty |-> 10, avg_cost |-> 2950]
OpenLongRow ==
    Row(1, Req("BUY", "MARKET", Null, 50, 100, Null, Null, 10, NoStr, NoStr),
        10, 50, 100, 2900, 3050, 2950, EXECUTED, {}, RiskTime - 30)

\* a row of the given status created at created_at: a CLOSED one was closed a
\* minute later with a profit, the others carry no result
StatusRow(status, created_at) ==
    IF status = CLOSED THEN ClosedRow("swing", 50, created_at, created_at + 1)
    ELSE [OpenLongRow EXCEPT !.status = status, !.created_at = created_at]

\* the statuses a row is not counted in by _get_daily_trade_count
UncountedStatuses == <<REJECTED, FAILED, PENDING_ORDER, CANCELLED>>

\* a ledger of y rows created on Monday evening and closed after midnight, c
\* rows created on Tuesday morning that are alternately CLOSED and EXECUTED,
\* and one row created on Tuesday morning for each status of S
Mixed(c, S, y) ==
    [ k \in 1 .. y |-> ClosedRow("swing", 50, MinutesPerDay - k, MinutesPerDay + k) ]
    \o [ k \in 1 .. c |->
           StatusRow(IF k % 2 = 1 THEN CLOSED ELSE EXECUTED, RiskTime - 120 + (2 * k)) ]
    \o LET kept == SelectSeq(UncountedStatuses, LAMBDA st : st \in S)
       IN  [ k \in DOMAIN kept |-> StatusRow(kept[k], RiskTime - 60 + k) ]

\* the settings with one of the risk switches off
RiskSettings ==
    { DefaultSettings,
      [DefaultSettings EXCEPT !.cooldown_enabled = FALSE],
      [DefaultSettings EXCEPT !.scalp_cooldown_enabled = FALSE],
      [DefaultSettings EXCEPT !.daily_loss_limit_enabled = FALSE],
      [DefaultSettings EXCEPT !.weekly_loss_limit_enabled = FALSE] }

InitRisk ==
    /\ settings \in RiskSettings
    /\ \/ \E n \in 0 .. MaxHist : \E h \in [1 .. n -> Outcomes] :
             \E a \in 0 .. n : \E b \in a .. n : rows = History(h, a, b)
       \/ \E n \in (MaxHist + 1) .. MaxStreak : \E strategy \in {M5_SCALP, "swing"} :
             rows = Streak(n, strategy)
       \/ \E n \in 0 .. 1 : \E h \in [1 .. n -> Outcomes] :
             rows = Append(History(h, 0, n), OpenLongRow)
       \/ \E c \in 0 .. MaxHist : \E S \in SUBSET {REJECTED, FAILED, PENDING_ORDER, CANCELLED} :
             \E y \in 0 .. 1 : rows = Mixed(c, S, y)
    /\ now = RiskTime
    /\ pos = IF \E i \in DOMAIN rows : rows[i].status = EXECUTED THEN OpenLong ELSE NoPosition
    /\ orders = {}
    /\ nextOrderId = 1
    /\ sub = [p \in Submitters |-> IdleSubmit]
    /\ cp = IdleClose
    /\ cn = IdleCancel
    /\ md = IdleModify
    /\ mon = IdleMonitor
    /\ notified = EmptyBag
    /\ rm = NoQuery
    /\ lastcall = NoCall
    /\ atrc = NoCalculator
    /\ used = [calls |-> 0, ticks |-> 0, polls |-> 0]

\* one call of can_trade, as the executor and the risk endpoints make it
RiskQuery(strategy, balance) ==
    /\ rm' = [ strategy |-> strategy, balance |-> balance, asked |-> TRUE,
               answer |-> can_trade(settings, rows, now, balance, strategy) ]
    /\ UNCHANGED <<atrc, lastcall, settings, rows, now, pos, orders, nextOrderId, sub, cp, cn, md, mon,
                   notified, used>>

\* one call of get_cooldown_status, as the risk endpoint makes it
CooldownStatus(balance) ==
    /\ lastcall' = [ fn     |-> "get_cooldown_status",
                     args   |-> <<balance>>,
                     result |-> <<get_cooldown_status(settings, rows, now, balance)>> ]
    /\ UNCHANGED <<atrc, settings, rows, now, pos, orders, nextOrderId, sub, cp, cn, md, mon,
                   notified, rm, used>>

NextRisk == \E strategy \in {NoStr, M5_SCALP}, balance \in Balances : RiskQuery(strategy, balance)

SpecRisk == InitRisk /\ [][NextRisk]_vars

\* the longest ledger the gate and the status report are compared on
MaxStatusRows == 3

InitStatus == InitRisk /\ Len(rows) <= MaxStatusRows

\* the gate and the status report asked about the same ledger at the same time
NextStatus ==
    \/ \E strategy \in {NoStr, M5_SCALP}, balance \in Balances : RiskQuery(strategy, balance)
    \/ \E balance \in Balances : CooldownStatus(balance)

SpecStatus == InitStatus /\ [][NextStatus]_vars

-----------------------------------------------------------------------------
(* The cooldowns over time: can_trade asked minute by minute after the last  *)
(* close of a short ledger                                                   *)

\* a small losing scalp, a small losing trade of another strategy, a win
TimelineOutcomes == { <<M5_SCALP, 0 - 10>>, <<"swing", 0 - 10>>, <<"swing", 50>> }

\* trades closed ten minutes apart, the first at StartTime
Timeline(h) ==
    [ k \in DOMAIN h |->
        LET at == StartTime + 10 * (k - 1)
        IN  ClosedRow(h[k][1], h[k][2], at - 1, at) ]

InitCooldown ==
    /\ settings \in { DefaultSettings, [DefaultSettings EXCEPT !.cooldown_enabled = FALSE] }
    /\ \E n \in 0 .. MaxTimeline : \E h \in [1 .. n -> TimelineOutcomes] :
          /\ rows = Timeline(h)
          /\ now = StartTime + 10 * Max(n - 1, 0)
    /\ pos = NoPosition
    /\ orders = {}
    /\ nextOrderId = 1
    /\ sub = [p \in Submitters |-> IdleSubmit]
    /\ cp = IdleClose
    /\ cn = IdleCancel
    /\ md = IdleModify
    /\ mon = IdleMonitor
    /\ notified = EmptyBag
    /\ rm = NoQuery
    /\ lastcall = NoCall
    /\ atrc = NoCalculator
    /\ used = [calls |-> 0, ticks |-> 0, polls |-> 0]

\* a minute passes and nothing is closed; what was asked before is history
MinutePasses ==
    /\ now < StartTime + MaxMinutes
    /\ now' = now + 1
    /\ rm' = NoQuery
    /\ UNCHANGED <<atrc, lastcall, settings, rows, pos, orders, nextOrderId, sub, cp, cn, md, mon,
                   notified, used>>

NextCooldown ==
    \/ \E strategy \in {NoStr, M5_SCALP}, balance \in Balances : RiskQuery(strategy, balance)
    \/ MinutePasses

SpecCooldown == InitCooldown /\ [][NextCooldown]_vars

-----------------------------------------------------------------------------
(* The monitor alone: polls against a broker state that has changed since   *)
(* the last poll and stays as it is                                          *)

\* EXECUTED rows in the ledger when the monitor wakes
MaxOpen == 2

\* a filled market order of size 2 at 2900, as execute_trade records it
OpenRow(direction, strategy) ==
    Row(1, Req(direction, "MARKET", Null, 50, 100, Null, Null, 2, NoStr, strategy),
        2, 50, 100, IF direction = "BUY" THEN 2850 ELSE 2950,
        IF direction = "BUY" THEN 3000 ELSE 2800, 2900, EXECUTED, {}, StartTime - 30)

\* get_price answers with a bid only, or with nothing within its ten seconds
OneSidedBook == [bid |-> 2895, ask |-> 0, last |-> 0]
EmptyBook == [bid |-> 0, ask |-> 0, last |-> 0]
MonitorBooks == {NormalBook, HigherBook, OneSidedBook, EmptyBook}

\* the size of the position the rows of one direction added up to when filled
FilledSize(ledger, direction) ==
    2 * Cardinality({ i \in DOMAIN ledger : ledger[i].direction = direction })

\* up to MaxOpen EXECUTED rows; the sizes the monitor saw at its last poll for
\* some of them; the broker position flat, or long or short with any quantity
\* up to the filled size
InitMonitor ==
    /\ settings = DefaultSettings
    /\ \E n \in 1 .. MaxOpen : \E f \in [1 .. n -> Directions \X {NoStr, M5_SCALP}] :
          rows = [ k \in 1 .. n |-> OpenRow(f[k][1], f[k][2]) ]
    /\ now = StartTime
    /\ \E q \in (0 - (2 * MaxOpen)) .. (2 * MaxOpen) :
          /\ Abs(q) <= FilledSize(rows, IF q > 0 THEN "BUY" ELSE "SELL")
          /\ pos = IF q = 0 THEN NoPosition ELSE [qty |-> q, avg_cost |-> 2900]
    /\ orders = {}
    /\ nextOrderId = 1
    /\ sub = [p \in Submitters |-> IdleSubmit]
    /\ cp = IdleClose
    /\ cn = IdleCancel
    /\ md = IdleModify
    /\ \E seen \in SUBSET DOMAIN rows :
          mon = [IdleMonitor EXCEPT !.last_known_sizes =
                    { <<i, FilledSize(rows, rows[i].direction)>> : i \in seen }]
    /\ notified = EmptyBag
    /\ rm = NoQuery
    /\ lastcall = NoCall
    /\ atrc = NoCalculator
    /\ used = [calls |-> 0, ticks |-> 0, polls |-> 0]

NextMonitor ==
    \/ MonitorFetch
    \/ MonitorSelect
    \/ \E book \in MonitorBooks : MonitorVisit(book)
    \/ MonitorReread
    \/ MonitorCommit

SpecMonitor == InitMonitor /\ [][NextMonitor]_vars

\* run_forever polls again after every sleep and the fetch succeeds in the end
FairMonitor ==
    /\ WF_vars(MonitorFetch)
    /\ WF_vars(MonitorSelect)
    /\ WF_vars(\E book \in MonitorBooks : MonitorVisit(book))
    /\ WF_vars(MonitorReread)
    /\ WF_vars(MonitorCommit)

\* the polls with the broker closing positions in between, whenever it does
NextMonitorFair == NextMonitor \/ BrokerExit

SpecMonitorFair == InitMonitor /\ [][NextMonitorFair]_vars /\ FairMonitor

\* one submit_trade for each way a request can state its stop and its target:
\* a distance (zero, below, within or above the bounds), a price level (near or
\* far, on either side of the market), or nothing
DistanceRequests ==
    { Req(d, "MARKET", Null, sd, ld, sl, ll, 1, NoStr, NoStr) :
        d \in Directions, sd \in {Null, 3, 50, 400}, ld \in {Null, 0, 20, 100},
        sl \in {Null, 2898, 2851, 2903, 2950}, ll \in {Null, 2911, 3001, 2890, 2800} }

\* what get_dynamic_sl_tp may hand back: None or a clamped pair
DistanceAtrResults == { <<>>, <<45, 90>>, <<200, 200>> }

\* the service with one call left to take
InitResolve ==
    /\ settings = DefaultSettings
    /\ rows = <<>>
    /\ now = StartTime
    /\ pos = NoPosition
    /\ orders = {}
    /\ nextOrderId = 1
    /\ sub = [p \in Submitters |-> IdleSubmit]
    /\ cp = IdleClose
    /\ cn = IdleCancel
    /\ md = IdleModify
    /\ mon = IdleMonitor
    /\ notified = EmptyBag
    /\ rm = NoQuery
    /\ lastcall = NoCall
    /\ atrc = NoCalculator
    /\ used = [calls |-> MaxCalls - 1, ticks |-> 0, polls |-> 0]

NextResolve ==
    \/ \E request \in DistanceRequests : SubmitStart(1, request)
    \/ \E balance \in Balances : SubmitRisk(1, balance)
    \/ \E atr \in DistanceAtrResults : SubmitPrice(1, NormalBook, atr)
    \/ SubmitExecute(1)
    \/ SubmitLog(1)

SpecResolve == InitResolve /\ [][NextResolve]_vars

\* run_forever with ticks that raise and with the shutdown of the application
NextLoop ==
    \/ NextMonitorFair
    \/ MonitorRaise
    \/ MonitorCancel
    \/ MonitorCatch

\* the event loop resumes the task: the except clauses run once an exception
\* is raised; nothing obliges a tick to raise or the application to shut down
FairLoop == FairMonitor /\ WF_vars(MonitorCatch)

SpecLoop == InitMonitor /\ [][NextLoop]_vars /\ FairLoop

\* the readers and the writer of open rows side by side: the risk queries of
\* the endpoints while the monitor reconciles
NextFrame ==
    \/ NextMonitorFair
    \/ \E strategy \in {NoStr, M5_SCALP}, balance \in Balances : RiskQuery(strategy, balance)
    \/ \E balance \in Balances : CooldownStatus(balance)

SpecFrame == InitMonitor /\ [][NextFrame]_vars

-----------------------------------------------------------------------------
(* The position sizer alone: calculate on drawn balances, stop distances,    *)
(* instruments and convictions                                               *)

\* stop distances drawn for the sizer
MaxStop == 60

\* account balances from one dollar to a hundred million
SizerBalances == { 1, 50, 1000, 10000, 50000, 1000000, 100000000 }

Convictions == <<"LOW", "MEDIUM", "HIGH">>

\* the state of the service at rest, with the given settings
InitIdle(s) ==
    /\ settings = s
    /\ rows = <<>>
    /\ now = StartTime
    /\ pos = NoPosition
    /\ orders = {}
    /\ nextOrderId = 1
    /\ sub = [p \in Submitters |-> IdleSubmit]
    /\ cp = IdleClose
    /\ cn = IdleCancel
    /\ md = IdleModify
    /\ mon = IdleMonitor
    /\ notified = EmptyBag
    /\ rm = NoQuery
    /\ lastcall = NoCall
    /\ atrc = NoCalculator
    /\ used = [calls |-> 0, ticks |-> 0, polls |-> 0]

InitSizer ==
    \E s \in { DefaultSettings, [DefaultSettings EXCEPT !.conviction_sizing_enabled = FALSE] } :
       InitIdle(s)

\* calculate called for one balance, stop distance and instrument with each
\* conviction in turn
Calculate(balance, stop_distance, instrument) ==
    /\ lastcall' =
          [ fn     |-> "calculate",
            args   |-> [ balance |-> balance, stop_distance |-> stop_distance,
                         instrument |-> instrument ],
            result |-> [ c \in {"LOW", "MEDIUM", "HIGH"} |->
                           calculate(settings, balance, stop_distance, instrument, c) ] ]
    /\ UNCHANGED <<atrc, settings, rows, now, pos, orders, nextOrderId, sub, cp, cn, md, mon,
                   notified, rm, used>>

NextSizer ==
    \E balance \in SizerBalances, stop_distance \in 1 .. MaxStop, instrument \in INSTRUMENTS :
       Calculate(balance, stop_distance, instrument)

SpecSizer == InitSizer /\ [][NextSizer]_vars

-----------------------------------------------------------------------------
(* The split of an entry into its two target legs alone: _can_split and the  *)
(* leg sizes of _execute_partial_tp and _execute_runner                      *)

\* the largest entry size drawn, in units (thousands for a currency pair)
MaxSplitSize == 20

\* partial_tp_percent as configured
SplitPercents == {25, 50, 75}

InitSplit == \E pct \in SplitPercents : InitIdle([DefaultSettings EXCEPT !.partial_tp_percent = pct])

\* the split check and the leg sizes for one entry size
Split(size, instrument) ==
    /\ lastcall' = [ fn     |-> "_can_split",
                     args   |-> [size |-> size, instrument |-> instrument],
                     result |-> [ can_split |-> can_split(settings, size, instrument),
                                  sizes     |-> split_sizes(settings, size, instrument) ] ]
    /\ UNCHANGED <<atrc, settings, rows, now, pos, orders, nextOrderId, sub, cp, cn, md, mon,
                   notified, rm, used>>

NextSplit ==
    \E k \in 1 .. MaxSplitSize, instrument \in INSTRUMENTS :
       Split(IF instrument.sec_type = "CASH" THEN 1000 * k * 3 ELSE k, instrument)

SpecSplit == InitSplit /\ [][NextSplit]_vars

\* submit_trade with splitting on and off, for sizes that can and cannot be
\* split, both strategies, market and resting entries
BracketRequests ==
    { Req("BUY", ot[1], ot[2], 50, 100, Null, Null, size, NoStr, strategy) :
        ot \in {<<"MARKET", Null>>, <<"LIMIT", 2890>>}, size \in 1 .. 3,
        strategy \in {NoStr, M5_SCALP} }

InitBracket ==
    \E s \in { DefaultSettings, [DefaultSettings EXCEPT !.partial_tp_enabled = FALSE] } :
       InitIdle(s)

NextBracket ==
    \/ \E request \in BracketRequests : SubmitStart(1, request)
    \/ \E balance \in Balances : SubmitRisk(1, balance)
    \/ SubmitPrice(1, NormalBook, <<>>)
    \/ SubmitExecute(1)
    \/ SubmitLog(1)

SpecBracket == InitBracket /\ [][NextBracket]_vars

-----------------------------------------------------------------------------
(* The dynamic stop calculator alone: get_dynamic_sl_tp on drawn averages of *)
(* the true range, multipliers and instruments                               *)

\* the largest average true range drawn, in price units
MaxAtr == 120

\* the configured multipliers, in tenths: stop and target
AtrMultipliers == {5, 15, 20, 30} \X {10, 20}

InitAtr ==
    \/ \E m \in AtrMultipliers :
          InitIdle([DefaultSettings EXCEPT !.atr_sl_multiplier_x10 = m[1],
                                           !.atr_tp_multiplier_x10 = m[2]])
    \/ InitIdle([DefaultSettings EXCEPT !.atr_enabled = FALSE])

\* one call; atr is Null when _get_atr has no value
GetDynamicSlTp(atr, instrument) ==
    /\ lastcall' = [ fn     |-> "get_dynamic_sl_tp",
                     args   |-> [atr |-> atr, instrument |-> instrument],
                     result |-> get_dynamic_sl_tp(settings, atr, instrument) ]
    /\ UNCHANGED <<atrc, settings, rows, now, pos, orders, nextOrderId, sub, cp, cn, md, mon,
                   notified, rm, used>>

NextAtr ==
    \E atr \in {Null} \cup (0 .. MaxAtr), instrument \in INSTRUMENTS :
       GetDynamicSlTp(atr, instrument)

SpecAtr == InitAtr /\ [][NextAtr]_vars

-----------------------------------------------------------------------------
(* The calculator with its cache: get_dynamic_sl_tp called for two           *)
(* instruments while the monotonic clock advances and downloads succeed or   *)
(* fail                                                                      *)

\* the last reading of the monotonic clock, in seconds
MaxMono == 5
\* the downloads made
MaxHistoryCalls == 3

CacheTtls == {2, 3}
CacheInstruments == {XAUUSD, MES}
\* what _fetch_atr returns: None, or an average true range
FetchResults == {Null, 0, 30, 60}

InitCache ==
    \/ \E ttl \in CacheTtls :
          InitIdle([DefaultSettings EXCEPT !.atr_cache_ttl_seconds = ttl])
    \/ InitIdle([DefaultSettings EXCEPT !.atr_enabled = FALSE])

\* time.monotonic() moves on between two calls
MonotonicTick ==
    /\ atrc.mono < MaxMono
    /\ atrc' = [atrc EXCEPT !.mono = @ + 1]
    /\ UNCHANGED <<lastcall, settings, rows, now, pos, orders, nextOrderId, sub, cp, cn, md,
                   mon, notified, rm, used>>

\* one call of get_dynamic_sl_tp, a synchronous call: _get_atr reads the
\* clock once, and a download takes `took` seconds
CachedSlTp(instrument, fetched, took) ==
    LET got    == get_atr(settings, atrc, instrument, fetched)
        ran    == settings.atr_enabled /\ got.fetched
        result == get_dynamic_sl_tp(settings, IF settings.atr_enabled THEN got.atr ELSE Null,
                                    instrument)
    IN  /\ ran => atrc.history_calls < MaxHistoryCalls /\ atrc.mono + took <= MaxMono
        /\ ~ran => took = 0
        /\ lastcall' = [ fn     |-> "get_dynamic_sl_tp",
                         args   |-> [instrument |-> instrument.key, at |-> atrc.mono],
                         result |-> result ]
        /\ atrc' = IF ~settings.atr_enabled THEN atrc
                   ELSE [ cache         |-> got.cache,
                          mono          |-> atrc.mono + took,
                          history_calls |-> atrc.history_calls + (IF ran THEN 1 ELSE 0),
                          last_fetch    |->
                              IF ran /\ fetched # Null
                              THEN [atrc.last_fetch EXCEPT
                                       ![instrument.key] = <<result, atrc.mono>>]
                              ELSE atrc.last_fetch ]
        /\ UNCHANGED <<settings, rows, now, pos, orders, nextOrderId, sub, cp, cn, md, mon,
                       notified, rm, used>>

NextCache ==
    \/ MonotonicTick
    \/ \E instrument \in CacheInstruments, fetched \in FetchResults, took \in {0, 1} :
          CachedSlTp(instrument, fetched, took)

SpecCache == InitCache /\ [][NextCache]_vars

-----------------------------------------------------------------------------
(* cancel_order alone: LIMIT entries resting at the broker, each with its    *)
(* PENDING_ORDER row, some rows cancelled before; the broker may fill an     *)
(* order before it is cancelled                                              *)

\* a resting LIMIT entry of size 1 at 2880 with order id deal_id, as
\* submit_trade records it
PendingRow(deal_id, direction, status) ==
    Row(deal_id, Req(direction, "LIMIT", 2880, 50, 100, Null, Null, 1, NoStr, NoStr),
        1, 50, 100, IF direction = "BUY" THEN 2830 ELSE 2930,
        IF direction = "BUY" THEN 2980 ELSE 2780, 2880, status, {}, StartTime - 30)

InitCancel ==
    /\ settings = DefaultSettings
    /\ \E n \in 1 .. MaxOpen :
          \E f \in [1 .. n -> Directions \X {PENDING_ORDER, CANCELLED}] :
             /\ rows = [ k \in 1 .. n |-> PendingRow(k, f[k][1], f[k][2]) ]
             /\ orders = { [ id |-> k, direction |-> f[k][1], size |-> 1,
                             kind |-> "resting", price |-> 2880 ] :
                           k \in { j \in 1 .. n : f[j][2] = PENDING_ORDER } }
             /\ nextOrderId = n + 1
    /\ now = StartTime
    /\ pos = NoPosition
    /\ sub = [p \in Submitters |-> IdleSubmit]
    /\ cp = IdleClose
    /\ cn = IdleCancel
    /\ md = IdleModify
    /\ mon = IdleMonitor
    /\ notified = EmptyBag
    /\ rm = NoQuery
    /\ lastcall = NoCall
    /\ atrc = NoCalculator
    /\ used = [calls |-> 0, ticks |-> 0, polls |-> 0]

NextCancel ==
    \/ \E d \in Directions, id \in {Null} \cup (1 .. MaxOpen + 1) : CancelStart(d, id)
    \/ CancelDb
    \/ BrokerFill

SpecCancel == InitCancel /\ [][NextCancel]_vars

-----------------------------------------------------------------------------
(* Submissions, the broker and the monitor, every task running on: the event *)
(* loop resumes each handler and the monitor whenever they can take a step   *)

NextFair ==
    \/ \E request \in ServiceRequests : SubmitStart(1, request)
    \/ \E balance \in Balances : SubmitRisk(1, balance)
    \/ SubmitPrice(1, NormalBook, <<>>)
    \/ SubmitExecute(1)
    \/ SubmitLog(1)
    \/ MonitorFetch
    \/ MonitorSelect
    \/ \E book \in {NormalBook, HigherBook} : MonitorVisit(book)
    \/ MonitorReread
    \/ MonitorCommit
    \/ BrokerFill
    \/ BrokerExit

\* a handler that was called runs to its end
FairSubmit ==
    /\ WF_vars(\E balance \in Balances : SubmitRisk(1, balance))
    /\ WF_vars(SubmitPrice(1, NormalBook, <<>>))
    /\ WF_vars(SubmitExecute(1))
    /\ WF_vars(SubmitLog(1))

SpecFair == Init /\ [][NextFair]_vars /\ FairSubmit /\ FairMonitor

-----------------------------------------------------------------------------
(* Properties of the ledger lifecycle, checked under Spec                    *)

\* C1: once a row is CLOSED, no later step of close_position or of the monitor
\* writes it again: its status, profit/loss and closed timestamp stay those of
\* the path that closed it first
C1_ClosedRowNeverRewritten ==
    [][\A i \in DOMAIN rows :
         rows[i].status = CLOSED =>
            /\ rows'[i].status = CLOSED
            /\ rows'[i].pnl = rows[i].pnl
            /\ rows'[i].closed_at = rows[i].closed_at]_vars

\* C2: every CLOSED row has a closed timestamp and a profit/loss value
C2_ClosedRowsComplete ==
    \A i \in DOMAIN rows :
       rows[i].status = CLOSED => rows[i].closed_at # Null /\ rows[i].pnl # Null

\* the lifecycle graph of a ledger row and its terminal states
LifecycleEdges ==
    { <<PENDING, VALIDATED>>, <<PENDING, REJECTED>>,
      <<VALIDATED, EXECUTED>>, <<VALIDATED, PENDING_ORDER>>, <<VALIDATED, FAILED>>,
      <<PENDING_ORDER, EXECUTED>>, <<PENDING_ORDER, CANCELLED>>,
      <<EXECUTED, CLOSED>> }

TerminalStatuses == { REJECTED, FAILED, CANCELLED, CLOSED }

\* C3: no step removes a row; a step that changes the status of an existing row
\* follows an edge of the lifecycle graph, and never leaves a terminal status
C3_StatusChangesAreLifecycleEdges ==
    [][/\ DOMAIN rows \subseteq DOMAIN rows'
       /\ \A i \in DOMAIN rows :
            rows'[i].status # rows[i].status =>
               /\ <<rows[i].status, rows'[i].status>> \in LifecycleEdges
               /\ rows[i].status \notin TerminalStatuses]_vars

\* C3 witness: the monitor has closed a row and close_position, which raced with
\* it, has since committed and answered
C3_Witness ==
    \E i \in DOMAIN rows :
       /\ rows[i].status = CLOSED
       /\ BagIn(Message("close_update", i), notified)
       /\ cp.pc = "done" /\ cp.http = 200 /\ cp.trade = i

-----------------------------------------------------------------------------
(* Properties of submit_trade, checked under SpecSubmit                      *)

\* C4: a submit_trade that answers REJECTED made no order-placing gateway call
C4_RejectedPlacedNoOrder ==
    \A p \in Submitters :
       sub[p].pc = "done" /\ sub[p].response.status = REJECTED => sub[p].placed = 0

\* C4 witness: a rejection at the last check before the order, the price sanity
\* check, and one by the validator
C4_Witness ==
    \E p \in Submitters :
       /\ sub[p].pc = "done"
       /\ sub[p].response.status = REJECTED
       /\ sub[p].response.message = {"Invalid price calculation"}
       /\ \E i \in DOMAIN rows : rows[i].status = REJECTED

\* C5: a submit_trade that answers REJECTED has added a REJECTED row with a
\* non-empty rejection reason, the row its response names
C5_RejectionIsRecorded ==
    \A p \in Submitters :
       sub[p].pc = "done" /\ sub[p].response.status = REJECTED =>
          /\ sub[p].response.trade_id \in DOMAIN rows
          /\ rows[sub[p].response.trade_id].status = REJECTED
          /\ rows[sub[p].response.trade_id].rejection_reason # {}

\* C6: when the order-placing call raises, submit_trade does not raise; it goes
\* on to add exactly one row, FAILED, to send one notification about it, and to
\* answer FAILED with the exception text in the message
C6_OrderExceptionBecomesFailed ==
    [][\A p \in Submitters :
         /\ sub'[p].exc = "IBKR connection lost" => sub'[p].pc \in {"log", "done"}
         /\ sub[p].exc = "IBKR connection lost" /\ sub[p].pc = "log" /\ sub'[p] # sub[p] =>
              /\ sub'[p].pc = "done"
              /\ sub'[p].response.status = FAILED
              /\ "IBKR connection lost" \in sub'[p].response.message
              /\ Len(rows') = Len(rows) + 1
              /\ SubSeq(rows', 1, Len(rows)) = rows
              /\ rows'[Len(rows')].status = FAILED
              /\ sub'[p].response.trade_id = Len(rows')
              /\ \E kind \in {"trade_update", "pending_order_update"} :
                    notified' = notified (+) SetToBag({Message(kind, Len(rows'))})]_vars

\* C6 witness: a submit_trade whose order call raised has returned
C6_Witness ==
    \E p \in Submitters :
       /\ sub[p].pc = "done"
       /\ sub[p].exc = "IBKR connection lost"
       /\ sub[p].response.status = FAILED

\* C7: no gateway call of submit_trade lets an exception reach the caller; a
\* submit_trade in which one raised answers FAILED
C7_NoGatewayExceptionPropagates ==
    \A p \in Submitters :
       /\ sub[p].pc # "raised"
       /\ sub[p].pc = "done" /\ sub[p].exc # NoStr => sub[p].response.status = FAILED

\* C8: with daily limits enabled, the rows created today that are EXECUTED or
\* CLOSED never outnumber max_daily_trades
C8_DailyTradeCountWithinLimit ==
    settings.daily_loss_limit_enabled =>
       get_daily_trade_count(rows, now) <= settings.max_daily_trades

\* C10: the admission step of an m5_scalp request, taken while the scalp cooldown
\* is active, rejects the request with the scalp cooldown reason
C10_ScalpCooldownRejectsScalpSubmit ==
    [][\A p \in Submitters :
         /\ sub[p].pc = "risk"
         /\ sub'[p].pc \notin {"risk", "raised"}
         /\ sub[p].request.strategy = M5_SCALP
         /\ ~check_scalp_cooldown(settings, rows, now).ok
         => /\ sub'[p].pc = "done"
            /\ sub'[p].response.status = REJECTED
            /\ sub'[p].response.message = {"Scalp cooldown active"}]_vars

-----------------------------------------------------------------------------
(* Properties of can_trade, checked under SpecRisk                           *)

\* the order of the sub-checks, the scalp cooldown applying to m5_scalp only
FixedOrder(strategy) ==
    (IF strategy = M5_SCALP THEN <<"_check_scalp_cooldown">> ELSE <<>>)
        \o << "check_cooldown", "_check_daily_trade_count",
              "_check_daily_loss_limit", "_check_weekly_loss_limit" >>

\* C9: the sub-checks can_trade evaluated are the first n of the fixed order;
\* all before the n-th pass; a denial carries the reason of the n-th, which
\* fails; the answer is (True, "Risk checks passed") only if all were evaluated
\* and pass
C9_FixedOrderFirstFailure ==
    rm.asked =>
       LET a     == rm.answer
           order == FixedOrder(rm.strategy)
           n     == Len(a.evaluated)
           result(k) == RunCheck(order[k], settings, rows, now, rm.balance)
       IN  /\ n <= Len(order)
           /\ a.evaluated = SubSeq(order, 1, n)
           /\ \A k \in 1 .. (n - 1) : result(k).ok
           /\ IF a.ok
              THEN /\ n = Len(order)
                   /\ \A k \in 1 .. n : result(k).ok
                   /\ a.reason = Pass("Risk checks passed")
              ELSE /\ n >= 1
                   /\ ~result(n).ok
                   /\ a.reason = result(n)

\* C9 witness: a denial by the general cooldown of a ledger on which the daily
\* trade count and the weekly loss limit, which come later, would deny as well
C9_Witness ==
    /\ rm.asked
    /\ ~rm.answer.ok
    /\ rm.answer.reason.kind = "Cooldown active"
    /\ ~check_daily_trade_count(settings, rows, now).ok
    /\ ~check_weekly_loss_limit(settings, rows, now, rm.balance).ok

\* the closed rows with a profit/loss, of one strategy or (NoStr) of all
ClosedWithPnl(ledger, strat) ==
    { i \in DOMAIN ledger :
        /\ ledger[i].status = CLOSED /\ ledger[i].pnl # Null
        /\ (strat = NoStr \/ ledger[i].strategy = strat) }

\* the losing rows closed after the most recently closed non-losing row
TrailingLosses(ledger, strat) ==
    LET ids == ClosedWithPnl(ledger, strat) IN
    Cardinality({ i \in ids :
                    /\ ledger[i].pnl < 0
                    /\ \A j \in ids : ledger[j].pnl >= 0 =>
                                         ledger[i].closed_at > ledger[j].closed_at })

\* C11 as stated: the consecutive-loss count, general and scoped, is the number
\* of losing rows closed after the most recently closed non-losing row
C11_CountIsTrailingLosses ==
    rm.asked =>
       /\ CountConsecutiveLosses(rows, NoStr) = TrailingLosses(rows, NoStr)
       /\ CountConsecutiveLosses(rows, M5_SCALP) = TrailingLosses(rows, M5_SCALP)

\* C11 amended: the consecutive-loss count, general and scoped, is the number of
\* losing rows closed after the most recently closed non-losing row, but never
\* more than the 20 rows the query loads; it is 0 when the most recently closed
\* row is a win
C11_CountIsTrailingLossesUpToWindow ==
    rm.asked =>
       /\ \A strat \in {NoStr, M5_SCALP} :
            CountConsecutiveLosses(rows, strat) = Min(TrailingLosses(rows, strat), 20)
       /\ \A strat \in {NoStr, M5_SCALP} :
            LET ids == ClosedWithPnl(rows, strat) IN
            (\E i \in ids : rows[i].pnl > 0 /\ \A j \in ids : rows[i].closed_at >= rows[j].closed_at)
               => CountConsecutiveLosses(rows, strat) = 0

\* C11 witness: can_trade asked on a ledger of 21 losses in a row, of which 20 count
C11_Witness ==
    /\ rm.asked
    /\ TrailingLosses(rows, M5_SCALP) = 21
    /\ CountConsecutiveLosses(rows, M5_SCALP) = 20
    /\ CountConsecutiveLosses(rows, NoStr) = 20

\* close time of the most recently closed losing row
LastLosingClose(ledger) ==
    LET losing == { i \in ClosedWithPnl(ledger, NoStr) : ledger[i].pnl < 0 }
    IN  CHOOSE t \in { ledger[i].closed_at : i \in losing } :
           \A i \in losing : t >= ledger[i].closed_at

\* can_trade, asked for no strategy, denied by the general cooldown
GeneralCooldownDenies ==
    rm.asked /\ rm.strategy = NoStr /\ ~rm.answer.ok /\ rm.answer.reason.kind = "Cooldown active"

-----------------------------------------------------------------------------
(* Properties of the cooldowns over time, checked under SpecCooldown         *)

\* C12: with n the consecutive-loss count, the general cooldown denies exactly
\* when it is enabled, n is at or above the threshold and now is before the close
\* time of the most recent losing row plus base * 2^(n - threshold) hours; so,
\* the ledger unchanged, it allows from that instant on, and below the threshold
\* it always allows
C12_CooldownDeniesUntilEnd ==
    rm.asked /\ rm.strategy = NoStr =>
       LET n == Min(TrailingLosses(rows, NoStr), 20) IN
       GeneralCooldownDenies <=>
          /\ settings.cooldown_enabled
          /\ n >= settings.cooldown_after_losses
          /\ now < LastLosingClose(rows)
                     + settings.cooldown_hours_base
                         * (2 ^ (n - settings.cooldown_after_losses)) * 60

\* C12 witness: can_trade allows at the very minute a cooldown of two losses ends
C12_Witness ==
    /\ rm.asked /\ rm.strategy = NoStr /\ rm.answer.ok
    /\ settings.cooldown_enabled
    /\ TrailingLosses(rows, NoStr) = 2
    /\ now = LastLosingClose(rows) + 120

\* the ledger of the scenario: two losing closes ten minutes apart
TwoLossesTenMinutesApart ==
    /\ Len(rows) = 2
    /\ \A i \in {1, 2} : rows[i].status = CLOSED /\ rows[i].pnl < 0
    /\ rows[1].closed_at = StartTime /\ rows[2].closed_at = StartTime + 10
    /\ settings.cooldown_enabled
    /\ settings.cooldown_after_losses = 2 /\ settings.cooldown_hours_base = 2

\* C14 as stated: can_trade 15 minutes after the first of the two losing closes
\* answers false with 105 minutes of cooldown remaining (give or take a minute)
C14_Remaining105 ==
    TwoLossesTenMinutesApart /\ now = StartTime + 15 /\ rm.asked /\ rm.strategy = NoStr =>
       /\ GeneralCooldownDenies
       /\ rm.answer.reason.value \in 104 .. 106

\* C14 amended: can_trade 15 minutes after the first of the two losing closes
\* answers false with 115 minutes remaining: the two hours run from the second,
\* the most recent, losing close
C14_Remaining115 ==
    TwoLossesTenMinutesApart /\ now = StartTime + 15 /\ rm.asked /\ rm.strategy = NoStr =>
       /\ GeneralCooldownDenies
       /\ rm.answer.reason.value = 115
       /\ rm.answer.reason.limit = 2

\* C14 witness: the scenario, asked at minute 15
C14_Witness ==
    /\ TwoLossesTenMinutesApart /\ now = StartTime + 15
    /\ GeneralCooldownDenies

-----------------------------------------------------------------------------
(* Further properties of can_trade, checked under SpecRisk                   *)

UnrealizedPnl(position) ==
    (NormalBook.last - position.avg_cost) * position.qty * get_instrument(NoStr).multiplier

\* the gates of can_trade other than the daily loss limit pass
OtherGatesPass ==
    /\ rm.strategy = M5_SCALP => check_scalp_cooldown(settings, rows, now).ok
    /\ check_cooldown(settings, rows, now).ok
    /\ check_daily_trade_count(settings, rows, now).ok
    /\ check_weekly_loss_limit(settings, rows, now, rm.balance).ok

\* C15: with daily limits enabled and the other gates passing, can_trade denies
\* with the daily loss reason exactly when the profit/loss of the rows closed
\* today plus the unrealized profit/loss of the open position is at or below
\* -balance * max_daily_loss_percent / 100, and allows otherwise
C15_DailyLossCountsUnrealized ==
    rm.asked /\ settings.daily_loss_limit_enabled /\ OtherGatesPass =>
       LET total  == get_daily_pnl(rows, now) + UnrealizedPnl(pos)
           breach == total * 100 <= 0 - (rm.balance * settings.max_daily_loss_percent)
       IN  /\ breach => ~rm.answer.ok /\ rm.answer.reason.kind = "Daily loss limit reached"
           /\ ~breach => rm.answer.ok

\* the rows created since 00:00 UTC of the day of `now`
CreatedToday == { i \in DOMAIN rows : rows[i].created_at >= (now \div 1440) * 1440 }

\* neither cooldown denies the request that was asked
NoCooldownActive ==
    /\ rm.strategy = M5_SCALP => check_scalp_cooldown(settings, rows, now).ok
    /\ check_cooldown(settings, rows, now).ok

\* C16: with daily limits enabled and no cooldown active, can_trade denies with
\* the daily trade limit reason exactly when the rows created since 00:00 UTC
\* today in status EXECUTED or CLOSED number at least max_daily_trades; rows in
\* REJECTED, FAILED, PENDING_ORDER and CANCELLED are not counted
C16_DailyTradeLimitCountsExecutedAndClosed ==
    rm.asked /\ settings.daily_loss_limit_enabled /\ NoCooldownActive =>
       LET counted == { i \in CreatedToday : rows[i].status \in {EXECUTED, CLOSED} }
       IN  (~rm.answer.ok /\ rm.answer.reason.kind = "Daily trade limit reached")
              <=> Cardinality(counted) >= settings.max_daily_trades

\* C16 witness: one row short of the limit is counted while rows of all four
\* uncounted statuses were created today as well, and the request is allowed
C16_Witness ==
    /\ rm.asked /\ settings.daily_loss_limit_enabled /\ rm.answer.ok
    /\ Cardinality(CreatedToday) >= settings.max_daily_trades + 3
    /\ \A st \in {REJECTED, FAILED, PENDING_ORDER, CANCELLED} :
          \E i \in CreatedToday : rows[i].status = st
    /\ Cardinality({ i \in CreatedToday : rows[i].status \in {EXECUTED, CLOSED} })
          = settings.max_daily_trades - 1

\* the daily trade count check is switched off: line 180 of _check_daily_trade_count
\* reads daily_loss_limit_enabled, the settings have no switch of its own for it
DailyTradeCountDisabled == ~settings.daily_loss_limit_enabled

\* today's closed profit/loss is at or below -balance * max_daily_loss_percent / 100
DailyLossBreached ==
    get_daily_pnl(rows, now) * 100 <= 0 - (rm.balance * settings.max_daily_loss_percent)

\* C17: each of the five sub-checks can be switched off independently of the
\* other four, the enabled ones keeping their behaviour: with the daily trade
\* count check switched off and no cooldown active, the daily loss limit still
\* denies a request when today's loss has reached the limit
C17_CountOffKeepsDailyLossLimit ==
    rm.asked /\ DailyTradeCountDisabled /\ NoCooldownActive /\ DailyLossBreached =>
       ~rm.answer.ok /\ rm.answer.reason.kind = "Daily loss limit reached"

\* how many messages of a kind were sent about a row
Sent(kind, id) == CopiesIn(Message(kind, id), notified)

\* a poll that fetched the positions has run to its end
PolledOnce == used.polls >= 2 \/ (used.polls = 1 /\ mon.pc = "sleep")

\* the broker holds a position for the direction of the row
Held(id) == position_map_of(pos)[rows[id].direction] > 0

\* per row: at most one close message and one partial-target message; the
\* close message goes with the CLOSED status; after a full poll the rows
\* without a position are CLOSED and the others still EXECUTED
C18_OncePerRow ==
    \A id \in DOMAIN rows :
       /\ Sent("close_update", id) <= 1
       /\ Sent("tp1_hit", id) <= 1
       /\ Sent("close_update", id) = 1 => rows[id].status = CLOSED
       /\ PolledOnce =>
             /\ ~Held(id) => rows[id].status = CLOSED /\ Sent("close_update", id) = 1
             /\ Held(id) => rows[id].status = EXECUTED

\* a second or later poll writes no row and sends no message; a row is only
\* ever changed from EXECUTED to CLOSED
C18_SecondPollStep ==
    /\ used.polls >= 2 => rows' = rows /\ notified' = notified
    /\ \A id \in DOMAIN rows :
          rows'[id] # rows[id] => rows[id].status = EXECUTED /\ rows'[id].status = CLOSED

\* C18: with the broker state unchanged and nothing else writing the ledger,
\* the second of two successive monitor polls writes no row and sends no
\* message: a vanished position gives each of its rows one close message and
\* one change from EXECUTED to CLOSED, a size decrease gives a row at most
\* one partial-target message
C18_MonitorPollIdempotent == []C18_OncePerRow /\ [][C18_SecondPollStep]_vars

\* C18 witness: the second poll visits a row whose position is still held,
\* after the first poll sent a partial-target message and closed another row
C18_Witness ==
    /\ used.polls = 2 /\ mon.pc = "loop"
    /\ \E id \in DOMAIN rows : Sent("tp1_hit", id) = 1 /\ rows[id].status = EXECUTED
    /\ \E id \in DOMAIN rows : Sent("close_update", id) = 1 /\ rows[id].status = CLOSED

\* the profit/loss of a row closed at the price of price_data: the last trade
\* price, with or without the bid standing in for a missing last price; 0 when
\* there is no price
ClaimedPnl(row, price_data, bid_stands_in) ==
    LET has(x) == x # Null /\ x # 0
        price  == IF has(price_data.last) THEN price_data.last
                  ELSE IF bid_stands_in /\ has(price_data.bid) THEN price_data.bid
                  ELSE 0
    IN  IF price = 0 THEN 0
        ELSE IF row.direction = "BUY"
             THEN (price - row.entry_price) * row.size * XAUUSD.multiplier
             ELSE (row.entry_price - price) * row.size * XAUUSD.multiplier

\* the steps of the monitor on an EXECUTED row it finds no position for: it
\* takes the time and the price, reads the row again and, the row still being
\* EXECUTED, writes CLOSED with that time and the claimed profit/loss
MonitorCloses(bid_stands_in) ==
    mon' # mon /\ mon.pc \in {"loop", "reread", "commit"} =>
       LET trade == mon.open_trades[mon.k] IN
       /\ mon.pc = "loop" /\ mon.position_map[trade.row.direction] = 0 =>
             mon'.pc = "reread" /\ mon'.t = now
       /\ mon.pc = "reread" /\ rows[trade.id].status = EXECUTED => mon'.pc = "commit"
       /\ mon.pc = "commit" =>
             /\ rows'[trade.id].status = CLOSED
             /\ mon.t # Null /\ rows'[trade.id].closed_at = mon.t
             /\ rows'[trade.id].pnl = ClaimedPnl(rows[trade.id], mon.price_data, bid_stands_in)

\* C19 as stated: a monitor poll that finds no position for an EXECUTED row
\* closes it with the closed timestamp and the profit/loss at the last trade
\* price fetched at that poll, and with profit/loss 0 when that price cannot
\* be fetched
C19_ClosedAtLastTradePrice == [][MonitorCloses(FALSE)]_vars

\* C19 amended: the same, the close price being the last trade price or, when
\* get_price has no last price, the bid; profit/loss 0 when it has neither or
\* raises
C19_ClosedAtLastOrBid == [][MonitorCloses(TRUE)]_vars

\* C19 witness: a SELL row was closed by the monitor with a profit at a price
\* below its entry
C19_Witness ==
    \E id \in DOMAIN rows :
       /\ rows[id].status = CLOSED /\ rows[id].direction = "SELL"
       /\ rows[id].closed_at = StartTime
       /\ rows[id].pnl > 0
       /\ Sent("close_update", id) = 1

\* C20: if from some point on the broker holds no position for the
\* (instrument, direction) of an EXECUTED row, and the monitor keeps polling
\* with its position fetch succeeding in the end, the row becomes CLOSED
C20_VanishedPositionLeadsToClosed ==
    \A id \in 1 .. MaxOpen :
       (id \in DOMAIN rows /\ rows[id].status = EXECUTED /\ ~Held(id))
          ~> (id \in DOMAIN rows /\ rows[id].status = CLOSED)

\* C20 witness: a row whose position first shrank and then vanished between
\* two polls was closed by the later poll
C20_Witness ==
    \E id \in DOMAIN rows :
       /\ Sent("tp1_hit", id) = 1
       /\ rows[id].status = CLOSED /\ Sent("close_update", id) = 1
       /\ used.polls = 2

\* the entry order of the row is no longer working at the broker
EntryOrderGone(id) == ~\E o \in orders : o.id = rows[id].deal_id

\* C21: a PENDING_ORDER row whose resting entry order has filled at the broker
\* becomes EXECUTED, and so one of the rows the monitor compares with the
\* broker positions
C21_FilledPendingOrderBecomesExecuted ==
    \A id \in 1 .. MaxCalls :
       (id \in DOMAIN rows /\ rows[id].status = PENDING_ORDER /\ EntryOrderGone(id))
          ~> (id \in DOMAIN rows /\ rows[id].status = EXECUTED)

\* submitter p has fetched a book with positive bid and ask whose spread is
\* more than the configured share of the stop distance the request carries
FetchedWideBook(p) ==
    LET book == sub[p].price_data
        d    == sub[p].request.stop_distance
    IN  /\ book.bid # Null /\ book.bid > 0 /\ book.ask > 0
        /\ d # Null /\ d # NaN /\ d > 0
        /\ (book.ask - book.bid) * 100 > settings.max_spread_to_sl_ratio_pct * d

\* C22: a submission that fetched a book with positive bid and ask and
\* (ask - bid) / stop distance above the configured ratio returns REJECTED
\* with the spread reason, and no order has gone to the broker for it
C22_WideSpreadRejectedBeforeBroker ==
    \A p \in Submitters :
       FetchedWideBook(p) =>
          /\ sub[p].pc = "done"
          /\ sub[p].response.status = REJECTED
          /\ sub[p].response.message = {"Spread too wide"}
          /\ sub[p].placed = 0

\* C22 witness: stop distance 50 on a book 2900 / 2920, a spread of 40% of the
\* stop distance against a maximum of 30%
C22_Witness ==
    /\ FetchedWideBook(1)
    /\ sub[1].request.stop_distance = 50
    /\ sub[1].price_data.ask - sub[1].price_data.bid = 20
    /\ sub[1].response.status = REJECTED

\* C23: for every balance > 0, stop distance > 0 and instrument, the size is
\* at least the instrument's minimum and at most its maximum, and does not
\* decrease from LOW to MEDIUM to HIGH conviction
C23_SizeWithinLimitsAndMonotone ==
    lastcall.fn = "calculate" =>
       LET size       == lastcall.result
           instrument == lastcall.args.instrument
       IN  /\ \A c \in DOMAIN size :
                instrument.min_size <= size[c] /\ size[c] <= instrument.max_size
           /\ size["LOW"] <= size["MEDIUM"]
           /\ size["MEDIUM"] <= size["HIGH"]

\* C23 witness: a currency pair sized strictly between its limits, more with
\* each conviction rank, and HIGH at the instrument's maximum
C23_Witness ==
    /\ lastcall.fn = "calculate"
    /\ lastcall.args.instrument.sec_type = "CASH"
    /\ lastcall.args.instrument.min_size < lastcall.result["LOW"]
    /\ lastcall.result["LOW"] < lastcall.result["MEDIUM"]
    /\ lastcall.result["MEDIUM"] < lastcall.result["HIGH"]
    /\ lastcall.result["HIGH"] = lastcall.args.instrument.max_size

\* C24: whenever get_dynamic_sl_tp returns a pair, the stop distance is within
\* the instrument's minimum and maximum stop distance and the target distance
\* is at least the stop distance, for every average true range and pair of
\* multipliers
C24_DynamicStopClampedTargetFloored ==
    lastcall.fn = "get_dynamic_sl_tp" /\ lastcall.result # <<>> =>
       LET sl         == lastcall.result[1]
           tp         == lastcall.result[2]
           instrument == lastcall.args.instrument
       IN  /\ 10 * instrument.min_stop_distance <= sl
           /\ sl <= 10 * instrument.max_stop_distance
           /\ tp >= sl

\* C24 witness: the target multiplier is below the stop multiplier and the
\* stop is strictly inside its limits, so that the target is floored at it
C24_Witness ==
    /\ lastcall.fn = "get_dynamic_sl_tp" /\ lastcall.result # <<>>
    /\ settings.atr_tp_multiplier_x10 < settings.atr_sl_multiplier_x10
    /\ 10 * lastcall.args.instrument.min_stop_distance < lastcall.result[1]
    /\ lastcall.result[1] < 10 * lastcall.args.instrument.max_stop_distance
    /\ lastcall.result[2] = lastcall.result[1]

\* C25: every EXECUTED row has an entry price and a stop price
C25_ExecutedRowsCarryEntryAndStop ==
    \A i \in DOMAIN rows :
       rows[i].status = EXECUTED =>
          /\ rows[i].entry_price # Null /\ rows[i].entry_price > 0
          /\ rows[i].stop_loss # Null /\ rows[i].stop_loss # NaN

\* C25 witness: an EXECUTED row after modify_position changed its target and
\* left its stop as submit_trade wrote it
C25_Witness ==
    /\ md.pc = "done" /\ md.http = 200 /\ md.new_sl = Null
    /\ \E i \in DOMAIN rows :
          /\ rows[i].status = EXECUTED
          /\ rows[i].take_profit = md.new_tp
          /\ rows[i].stop_loss = rows[i].entry_price - rows[i].stop_distance

\* C26: the monitor task ends only by cancellation: an exception of a tick that
\* is not a cancellation is swallowed and another tick runs after the sleep
\* (unless the task is cancelled first); a cancellation in a tick or in the
\* sleep ends the task
C26_EndedOnlyByCancellation ==
    mon.pc = "ended" => mon.exc = "CancelledError"

C26_RaisedStep ==
    mon.pc = "raised" /\ mon'.pc # "raised" =>
       IF mon.exc = "CancelledError"
       THEN mon'.pc = "ended" /\ rows' = rows /\ notified' = notified
       ELSE mon'.pc = "sleep" /\ mon'.last_known_sizes = mon.last_known_sizes

C26_MonitorLoopEndsOnlyByCancellation ==
    /\ []C26_EndedOnlyByCancellation
    /\ [][C26_RaisedStep]_vars
    /\ (mon.pc = "raised" /\ mon.exc = "Exception") ~> (mon.pc = "select" \/ mon.pc = "ended")
    /\ (mon.pc = "raised" /\ mon.exc = "CancelledError") ~> (mon.pc = "ended")

\* C26 witness: after a tick raised, a later tick is about to close a row
C26_Witness ==
    /\ mon.pc = "commit" /\ mon.exc = "Exception"
    /\ used.polls = MaxPolls
    /\ \A i \in DOMAIN rows : rows[i].status = EXECUTED

\* the fields of row i that a step changed
Changed(i) == { f \in DOMAIN rows[i] : rows'[i][f] # rows[i][f] }

\* a step that is a call of can_trade or of get_cooldown_status
RiskCall == rm' # rm \/ lastcall' # lastcall

\* a step of the monitor task
MonitorStep == mon' # mon

C27_Frame(writable) ==
    /\ RiskCall => rows' = rows
    /\ MonitorStep =>
          /\ DOMAIN rows' = DOMAIN rows
          /\ \A i \in DOMAIN rows : Changed(i) \subseteq writable

\* C27 as stated: can_trade and get_cooldown_status leave every row unchanged,
\* and a monitor tick changes nothing of a row but status, pnl and closed_at
C27_MonitorWritesStatusPnlClosedOnly ==
    [][C27_Frame({"status", "pnl", "closed_at"})]_vars

\* C27 amended: ... but status, pnl, closed_at and the last-updated timestamp
\* that the ledger stamps on every update; instrument, direction, size,
\* entry price, stop and target are never changed
C27_MonitorWritesStatusPnlClosedUpdated ==
    [][C27_Frame({"status", "pnl", "closed_at", "updated_at"})]_vars

\* C27 witness: the monitor closed a row, and both risk queries ran after it
C27_Witness ==
    /\ \E i \in DOMAIN rows :
          /\ rows[i].status = CLOSED /\ rows[i].updated_at # Null
          /\ rows[i].entry_price = 2900 /\ rows[i].pnl # 0
    /\ rm.asked
    /\ lastcall.fn = "get_cooldown_status" /\ lastcall.result[1].daily_pnl # 0

\* the monitor task closes row i on this step
MonitorClosesRow(i) ==
    MonitorStep /\ rows[i].status = EXECUTED /\ rows'[i].status = CLOSED

\* row i is the only row of its direction: an open position of that direction
\* at the broker is the position of row i
OnlyRowOfDirection(i) ==
    \A j \in DOMAIN rows : rows[j].direction = rows[i].direction => j = i

\* C28: the monitor never closes a row while the broker holds the open
\* position of that row, whatever a concurrent submit_trade of the same
\* (instrument, direction) does between the snapshot of the positions and the
\* read of the EXECUTED rows
C28_NoCloseOnStaleSnapshot ==
    [][\A i \in DOMAIN rows :
          MonitorClosesRow(i) /\ OnlyRowOfDirection(i) =>
             position_map_of(pos)[rows[i].direction] = 0]_vars

\* no call of submit_trade is under way and no entry order of direction d is
\* still at the broker
Settled(d) ==
    /\ \A p \in Submitters : sub[p].pc \in {"idle", "done"}
    /\ \A o \in orders : o.direction # d

\* C29: a position that a submit_trade opened at the broker, also one whose
\* entry order filled after the fill wait had timed out, has its row EXECUTED
\* and never only FAILED: once the only submission of a direction is settled
\* and its row is FAILED, the broker holds no position of that direction
C29_NoPositionBehindFailedRow ==
    \A i \in DOMAIN rows :
       /\ rows[i].status = FAILED
       /\ rows[i].deal_id # Null
       /\ OnlyRowOfDirection(i)
       /\ Settled(rows[i].direction)
       => position_map_of(pos)[rows[i].direction] = 0

\* the step of a tick whose get_open_positions raised
SkippedTickStep ==
    mon.pc = "sleep" /\ ~mon.skipped /\ mon'.skipped

\* C30: a tick whose fetch of the broker positions fails changes no row,
\* sends no notification and leaves the last-seen sizes as they were; it does
\* nothing else before the next sleep
C30_SkippedTickFrame ==
    SkippedTickStep =>
       /\ rows' = rows
       /\ notified' = notified
       /\ mon'.last_known_sizes = mon.last_known_sizes
       /\ mon'.pc = "sleep"

C30_FailedFetchSkipsTick ==
    /\ [](mon.skipped => mon.pc = "sleep")
    /\ [][C30_SkippedTickFrame]_vars

\* C30 witness: the position of an EXECUTED row has vanished and its size was
\* seen before, yet the tick was skipped and the row is untouched
C30_Witness ==
    /\ mon.skipped
    /\ pos = NoPosition
    /\ mon.last_known_sizes # {}
    /\ \A i \in DOMAIN rows : rows[i].status = EXECUTED
    /\ notified = EmptyBag

\* submit_trade p has made its order-placing call
OrderSent(p) == sub[p].pc \in {"log", "done"} /\ sub[p].call # NoStr

\* C31: every order submit_trade sends has a stop distance within the
\* instrument's [min_stop_distance, max_stop_distance] and a target distance
\* of at least the stop distance, wherever the distances came from
C31_SentOrderDistancesWithinBounds ==
    \A p \in Submitters :
       OrderSent(p) =>
          LET plan == sub[p].plan
              instrument == get_instrument(NoStr)
          IN  /\ plan.stop_distance >= instrument.min_stop_distance
              /\ plan.stop_distance <= instrument.max_stop_distance
              /\ plan.limit_distance >= plan.stop_distance

\* close_position writes row i as CLOSED on this step
CloseClosesRow(i) ==
    /\ cp.pc = "commit" /\ cp'.pc = "done"
    /\ cp.trade = i
    /\ rows[i].status # CLOSED /\ rows'[i].status = CLOSED

\* C32: close_position writes a row as CLOSED only when the closing order was
\* reported Filled and the closed size is the whole size of the open position;
\* after a partial close or an unfilled close the row stays EXECUTED
C32_ClosedOnlyOnFullFilledClose ==
    [][\A i \in DOMAIN rows :
          CloseClosesRow(i) =>
             cp.status = "closed" /\ cp.close_size = cp.position_size]_vars

\* C33: whenever the split check passes, the two leg sizes sum to the entry size
C33_SplitLegsSumToSize ==
    lastcall.fn = "_can_split" /\ lastcall.result.can_split =>
       lastcall.result.sizes[1] + lastcall.result.sizes[2] = lastcall.args.size

\* both shares of the entry size, each rounded, reach the instrument's minimum
BothLegsClearMinimum(size) ==
    LET pct == settings.partial_tp_percent
        min_size == get_instrument(NoStr).min_size
    IN  /\ RoundHalfEven(size * pct, 100) >= min_size
        /\ RoundHalfEven(size * (100 - pct), 100) >= min_size

\* the bracket the claim names for a plan
ClaimedBracket(plan) ==
    LET split == settings.partial_tp_enabled /\ BothLegsClearMinimum(plan.size) IN
    IF is_pending(plan.request)
    THEN IF split THEN "open_pending_position_with_partial_tp" ELSE "open_pending_position"
    ELSE IF ~split THEN "open_position"
         ELSE IF plan.request.strategy = M5_SCALP THEN "open_position_with_runner"
              ELSE "open_position_with_partial_tp"

\* C34: the execute step places the split bracket exactly when splitting is
\* enabled and both rounded shares reach the minimum size, the plain bracket
\* otherwise; the split of a market order of the m5_scalp strategy is the
\* runner, and its row carries no target price
C34_BracketChosenBySplitCheck ==
    \A p \in Submitters :
       OrderSent(p) =>
          /\ sub[p].call = ClaimedBracket(sub[p].plan)
          /\ sub[p].pc = "done" =>
                LET row == rows[sub[p].response.trade_id] IN
                /\ sub[p].call = "open_position_with_runner" => row.take_profit = Null
                /\ sub[p].call \in {"open_position_with_partial_tp",
                                    "open_pending_position_with_partial_tp"}
                      => row.take_profit = sub[p].plan.tp_price

\* C34 witness: a runner bracket was placed and filled, its row has no target
C34_Witness ==
    \E p \in Submitters :
       /\ sub[p].pc = "done" /\ sub[p].call = "open_position_with_runner"
       /\ sub[p].plan.size = 2
       /\ rows[sub[p].response.trade_id].status = EXECUTED
       /\ rows[sub[p].response.trade_id].take_profit = Null
       /\ \E i \in DOMAIN rows : rows[i].size = 1 /\ rows[i].status = EXECUTED

\* the distance the priority order gives: the request's own value (a distance,
\* or the distance of its level from the reference price), else the
\* calculator's, else the instrument default
Prioritised(explicit, level, reference_price, calculated, default) ==
    IF explicit # Null THEN explicit
    ELSE IF level # Null THEN Abs(reference_price - level)
    ELSE IF calculated # Null THEN calculated
    ELSE default

\* an explicit distance of 0 read either as given or as not given
ByPriority(explicit, level, reference_price, calculated, default) ==
    { Prioritised(explicit, level, reference_price, calculated, default),
      Prioritised(IF explicit = 0 THEN Null ELSE explicit, level, reference_price,
                  calculated, default) }

\* submit_trade p got its price and went on to the execute step, the
\* calculator having returned atr
PlannedWith(p, atr) ==
    SubmitPrice(p, NormalBook, atr) /\ sub'[p].pc = "execute"

\* C35: the stop distance and the target distance of the order are each the
\* explicit value if given, else the calculator's value if it returned one,
\* else the instrument default; with no value from the calculator a request
\* that states neither goes on with both defaults
C35_DistancesResolvedByPriority ==
    [][\A atr \in DistanceAtrResults :
          LET request == sub[1].request
              plan == sub'[1].plan
              instrument == get_instrument(NoStr)
          IN  /\ PlannedWith(1, atr) =>
                    /\ plan.stop_distance \in
                          ByPriority(request.stop_distance, request.stop_level,
                                     plan.reference_price,
                                     IF atr = <<>> THEN Null ELSE atr[1],
                                     instrument.default_sl_distance)
                    /\ plan.limit_distance \in
                          ByPriority(request.limit_distance, request.limit_level,
                                     plan.reference_price,
                                     IF atr = <<>> THEN Null ELSE atr[2],
                                     instrument.default_tp_distance)
              /\ /\ SubmitPrice(1, NormalBook, <<>>)
                 /\ sub'[1].pc # "raised"
                 /\ request.stop_distance = Null /\ request.stop_level = Null
                 /\ request.limit_distance = Null /\ request.limit_level = Null
                 => sub'[1].pc = "execute"]_vars

\* C36: after a call of get_dynamic_sl_tp whose download succeeded, every call
\* for that instrument made less than atr_cache_ttl_seconds later by the
\* monotonic clock returns the same result and downloads nothing; a call made
\* at or after the TTL downloads again; a download that fails leaves the cache
\* as it was and the call returns none, never the expired value
CacheCall(instrument, fetched) == \E took \in {0, 1} : CachedSlTp(instrument, fetched, took)

C36_CacheHonoursTtl ==
    [][\A instrument \in CacheInstruments, fetched \in FetchResults :
          LET last == atrc.last_fetch[instrument.key]
              ttl  == settings.atr_cache_ttl_seconds
              downloads == atrc'.history_calls - atrc.history_calls
          IN  (settings.atr_enabled /\ CacheCall(instrument, fetched)) =>
                 /\ (last # <<>> /\ atrc.mono - last[2] < ttl) =>
                        lastcall'.result = last[1] /\ downloads = 0
                 /\ (last # <<>> /\ atrc.mono - last[2] >= ttl) => downloads = 1
                 /\ (downloads = 1 /\ fetched = Null) =>
                        atrc'.cache = atrc.cache /\ lastcall'.result = <<>>]_vars

\* XAUUSD was downloaded at reading 0 and is served from the cache at a later
\* reading within the TTL, after a download for MES failed and stored nothing
C36_Witness ==
    /\ lastcall.fn = "get_dynamic_sl_tp"
    /\ lastcall.args.instrument = "XAUUSD"
    /\ lastcall.args.at > 0
    /\ atrc.last_fetch["XAUUSD"] # <<>>
    /\ atrc.last_fetch["XAUUSD"][2] = 0
    /\ lastcall.args.at < settings.atr_cache_ttl_seconds
    /\ lastcall.result = atrc.last_fetch["XAUUSD"][1]
    /\ atrc.history_calls = 2
    /\ atrc.cache["MES"] = <<>>

\* the monitor sends the partial-target message of row id in this step
NotifiesTp1(id) ==
    CopiesIn(Message("tp1_hit", id), notified') > CopiesIn(Message("tp1_hit", id), notified)

\* the monitor's for loop is at row id of the EXECUTED rows it selected
Visiting(id) == mon.pc = "loop" /\ mon.open_trades[mon.k].id = id /\ mon' # mon

\* C37: a monitor tick sends the partial-target message for an EXECUTED row
\* exactly when the position of the row's (instrument, direction) is still
\* present, its summed size is below the size last seen for that row id and
\* the row's strategy is m5_scalp; the notification changes no status; a row
\* without a last-seen entry gets none
C37_Tp1MessageExactlyOnShrunkRunner ==
    [][\A id \in DOMAIN rows :
          LET ibkr_size == mon.position_map[rows[id].direction]
              seen      == { e[2] : e \in { x \in mon.last_known_sizes : x[1] = id } }
          IN  /\ rows[id].status = EXECUTED =>
                    (NotifiesTp1(id) <=>
                        /\ Visiting(id)
                        /\ ibkr_size > 0
                        /\ \E last_size \in seen : ibkr_size < last_size
                        /\ rows[id].strategy = M5_SCALP)
              /\ NotifiesTp1(id) => rows' = rows
              /\ (Visiting(id) /\ seen = {}) => ~NotifiesTp1(id)]_vars

\* a runner row whose position shrank between two polls got its message and
\* is still EXECUTED, while a shrunk row of another strategy, seen before, got none
C37_Witness ==
    /\ used.polls = 2 /\ mon.pc = "sleep"
    /\ \E id \in DOMAIN rows :
          /\ rows[id].strategy = M5_SCALP /\ rows[id].status = EXECUTED
          /\ Sent("tp1_hit", id) = 1
    /\ \E id \in DOMAIN rows :
          /\ rows[id].strategy # M5_SCALP /\ rows[id].status = EXECUTED
          /\ Sent("tp1_hit", id) = 0
          /\ \E e \in mon.last_known_sizes : e[1] = id

\* the broker still holds the entry order of row i
OrderStillOpen(i) == \E o \in orders : o.id = rows[i].deal_id

\* C38: cancel_order changes a row to CANCELLED only if the row was
\* PENDING_ORDER and the broker confirmed the cancellation of the order id
\* stored on it; a row whose cancel failed stays PENDING_ORDER; when no order
\* was cancelled the call answers with an error and changes no row
C38_CancelledOnlyOnConfirmedCancel ==
    [][/\ \A i \in DOMAIN rows :
             /\ (rows[i].status # CANCELLED /\ rows'[i].status = CANCELLED) =>
                    /\ rows[i].status = PENDING_ORDER
                    /\ cn.pc = "db" /\ rows[i].deal_id \in cn.cancelled_ids
                    /\ ~OrderStillOpen(i)
             /\ (rows[i].status = PENDING_ORDER /\ OrderStillOpen(i)) =>
                    rows'[i] = rows[i]
       /\ (cn' # cn /\ cn'.cancelled_ids = {}) =>
              cn'.pc = "done" /\ cn'.http \in {404, 500} /\ rows' = rows]_vars

\* of two resting orders of one direction the broker cancelled one and failed
\* on the other: the first row is CANCELLED, the second still PENDING_ORDER
\* with its order at the broker, and the call answered 200
C38_Witness ==
    /\ cn.pc = "done" /\ cn.http = 200
    /\ \E i, j \in DOMAIN rows :
          /\ rows[i].direction = rows[j].direction
          /\ rows[i].status = CANCELLED /\ rows[i].deal_id \in cn.cancelled_ids
          /\ rows[i].updated_at # Null
          /\ rows[j].status = PENDING_ORDER /\ OrderStillOpen(j)
          /\ rows[j].deal_id \notin cn.cancelled_ids

\* C39: for every ledger and balance the can_trade flag of get_cooldown_status
\* equals the first component of what can_trade returns for the same ledger
\* and balance: the status report and the gate never disagree
C39_StatusAgreesWithGate ==
    ( /\ rm.asked /\ rm.strategy = NoStr
      /\ lastcall.fn = "get_cooldown_status" /\ lastcall.args = <<rm.balance>> )
       => lastcall.result[1].can_trade = rm.answer.ok

====
